---- MODULE Spec2Model ----
(***************************************************************************)
(* Resumable pipelines of hats-import: the shared resume plan             *)
(* (PipelineResumePlan), the nested light-curve pipeline and the margin   *)
(* cache pipeline, modelled over an abstract file system.                 *)
(***************************************************************************)
EXTENDS Integers, Sequences, FiniteSets, TLC

(* ------------------------------ bounds -------------------------------- *)
\* object pixels of the object catalog (keys of the counting stage)
NumObjectPixels == 2
\* destination buckets one object pixel is split into, at most
MaxBuckets == 2
\* partition pixels of the margin cache input catalog
NumPartitionPixels == 2
\* margin rows one mapping task finds, at most
MaxMarginRows == 1
\* process interruptions (controller or worker) in one behaviour
MaxCrashes == 1
\* length of an input_paths list, at most
MaxPaths == 2
\* calls of check_original_input_paths on one tmp_path
MaxCalls == 3
\* chunks a file reader yields for one input file
MaxChunks == 2
\* healpix pixels the rows of an input file fall in
NumMapPixels == 2
\* margin and index configurations stashed on one collection builder
MaxStash == 3
\* data files of the verified catalog, rows of one file, the truth_total_rows
\* tried, runs of the verifier
NumFiles == 2
MaxFileRows == 2
MaxTruth == 2
MaxRuns == 2
\* rows of a FITS table, chunksize of the reader, reads of one file
MaxTableRows == 5
MaxChunkSize == 3
MaxReads == 2
\* rows of a source partition, candidate object pixels of one kind (aligned
\* or neighbouring), rows one candidate matches
MaxSourceRows == 3
MaxCandidates == 2
MaxMatches == 2

ObjectPixels == 1..NumObjectPixels
PartitionPixels == 1..NumPartitionPixels
AllBuckets == ObjectPixels \X (1..MaxBuckets)

COUNTING_STAGE == "counting"
MAPPING_STAGE == "mapping"
REDUCING_STAGE == "reducing"

(* --------------------------- file system ------------------------------ *)
\* a file below tmp_path is <<kind, stage, n1, n2>>
StageDoneFile(stage) == <<"stage_done", stage, 0, 0>>
KeyDoneFile(stage, key) == <<"key_done", stage, key, 0>>
StageDir(stage) == <<"stage_dir", stage, 0, 0>>
CsvFile(pixel) == <<"csv", "", pixel, 0>>
ShardDir(bucket) == <<"shard", "", bucket[1], bucket[2]>>
SOURCE_MAP_FILE == <<"source_object_map", "", 0, 0>>
MARGIN_PAIR_FILE == <<"margin_pair", "", 0, 0>>
MARGIN_SCHEMA_FILE == <<"margin_schema", "", 0, 0>>

\* contents of an output file: absent, unreadable or short (an interrupted
\* write), or its row count
Absent == -1
Partial == 0

VARIABLES
  pipeline,     \* "ncl" (nested light curves) or "mc" (margin cache)
  resume,       \* args.resume
  delLogs,      \* args.delete_resume_log_files
  delShards,    \* args.delete_intermediate_parquet_files
  nBuckets,     \* object pixel -> number of destination buckets of its Alignment
  marginRows,   \* partition pixel -> margin rows its mapping task finds
  tmpDir,       \* tmp_path exists
  tmp,          \* files below tmp_path
  out,          \* bucket -> contents of its file in catalog_path
  catalog,      \* catalog-level files written in catalog_path
  ctl,          \* position of the controller (run / generate_margin_cache)
  countKeys,    \* the plan's remaining work list, as gathered
  totalRows,    \* total_rows of the controller
  task,         \* key -> position and locals of its task
  rtask,        \* margin cache: key -> position of its reducing task
  raised,       \* exception the controller ended with
  crashes,      \* interruptions so far
  lastOp,       \* the last two operations called on the plan, oldest first
  \* a call of wait_for_futures or of a stage wait
  wEntry,       \* the function called
  wStage,       \* stage_name
  failFast,     \* fail_fast
  fut,          \* future -> status
  seen,         \* futures as_completed has yielded, in order
  someError,    \* some_error
  wpc,          \* position of the call
  \* calls of check_original_input_paths
  logExists,    \* input_paths.txt exists
  logLines,     \* its lines
  calls,        \* calls so far
  firstInput,   \* input_paths of the first call
  lastInput,    \* input_paths of the last call
  lastResult,   \* how the last call ended
  prevLog,      \* the file as it was before the last call
  \* what a plan caches
  objectMap,        \* NestLightCurvePlan.object_map (<<>>: None)
  mapFileContents,  \* contents of source_object_map.npz as last written ({}: never)
  computed,         \* the last gathering computed the relation it caches
  \* exceptions of _perform_nest tasks
  failAt,       \* object pixel -> step of its task at which I/O fails ("none": nowhere)
  taskExc,      \* object pixel -> exception its task re-raised ("none": none)
  taskLog,      \* <<object pixel, exception>> printed by print_task_failure
  \* map_to_pixels tasks
  mapData,      \* shard_suffix -> the input file: its kind and the pixels of each chunk
  mapTask,      \* shard_suffix -> position of its task
  cacheFiles,   \* files below cache_path
  histo,        \* shard_suffix -> histogram of its task
  writes,       \* <<task key, path>>: paths the tasks of this invocation created or deleted
  \* a CollectionArguments builder
  disk,           \* paths that hold a valid catalog
  newCatalogPath, \* new_catalog_path
  catalogArgs,    \* catalog_args
  marginKwargs,   \* margin_kwargs
  indexKwargs,    \* index_kwargs
  marginArgs,     \* margin_args
  indexArgs,      \* index_args
  cLast,          \* the last call on the builder: method, keyword arguments, exception
  catalogCalls,   \* calls of catalog() so far, counted up to two
  \* runs of the verification tool on one catalog and one report file
  vData,        \* the catalog: its data files, its _metadata, the user's truth
  vResults,     \* Verifier.results
  vpc,          \* "idle" before the first run, then how the last run ended
  vMode,        \* write_mode of the run
  vCheck,       \* check_metadata of the run
  report,       \* the lines of the report file; none when it is not there
  runLog,       \* per run: its write mode, whether its Verifier was new, its exception
  vRuns,        \* runs started so far
  \* the arguments of a margin cache invocation and what the files below
  \* tmp_path were computed from
  mcArgs,       \* margin_order and margin_threshold of the MarginCacheArguments
  pairsOrder,   \* the margin_order margin_pair.csv was last written for
  mappedWith,   \* mapping key -> what its last map_pixel_shards ran with
  \* calls of library functions
  lastCall,     \* the last call: function, arguments, outcome
  \* a FitsReader and the generator of one read()
  fitsTable,    \* the rows of the table in the input file
  chunksize,    \* FitsReader.chunksize
  fitsGen,      \* the generator: its position, the table it read, whether the file is open
  fitsChunks,   \* the chunks the generator yielded so far
  fitsReads     \* the chunk lists of the reads that were exhausted before

pvars == <<pipeline, resume, delLogs, delShards, nBuckets, marginRows, tmpDir, tmp,
           out, catalog, ctl, countKeys, totalRows, task, rtask, raised, crashes, lastOp>>
argvars == <<pipeline, resume, delLogs, delShards, nBuckets, marginRows>>
runvars == <<out, catalog, ctl, totalRows, task, rtask, crashes>>
wvars == <<wEntry, wStage, failFast, fut, seen, someError, wpc>>
ivars == <<logExists, logLines, calls, firstInput, lastInput, lastResult, prevLog>>
gvars == <<objectMap, mapFileContents, computed>>
evars == <<failAt, taskExc, taskLog>>
mvars == <<mapData, mapTask, cacheFiles, histo>>
hvars == <<writes>>
cvars == <<disk, newCatalogPath, catalogArgs, marginKwargs, indexKwargs, marginArgs, indexArgs, cLast, catalogCalls>>
vvars == <<vData, vResults, vpc, vMode, vCheck, report, runLog, vRuns>>
avars == <<mcArgs, pairsOrder, mappedWith>>
fvars == <<fitsTable, chunksize, fitsGen, fitsChunks, fitsReads>>
yvars == <<avars, lastCall, fvars>>
xvars == <<cvars, vvars, yvars>>
others == <<gvars, evars, mvars, hvars, xvars>>
vars == <<pvars, wvars, ivars, others>>

NoError == [type |-> "none", stage |-> "", count |-> -1]
\* an error message that carries no number has count = NoCount
NoCount == -1

RECURSIVE SumOver(_, _)
\* sum of f[x] for x in S
SumOver(S, f) ==
  IF S = {} THEN 0
  ELSE LET x == CHOOSE y \in S : TRUE IN f[x] + SumOver(S \ {x}, f)

SetOfSeq(q) == {q[i] : i \in DOMAIN q}

RECURSIVE SortedSeq(_)
\* the sorted list of the elements of a set
SortedSeq(S) ==
  IF S = {} THEN <<>>
  ELSE LET m == CHOOSE x \in S : \A y \in S : x <= y
       IN  <<m>> \o SortedSeq(S \ {m})

(* ------------------- PipelineResumePlan (shared) ---------------------- *)
\* file_io.directory_has_contents(tmp_path)
directory_has_contents(dir, files) == dir /\ files # {}

\* delete_resume_log_files as the plan object holds it: NestLightCurvePlan
\* receives it from args.resume_kwargs_dict(), MarginCachePlan does not hand
\* it to PipelineResumePlan, whose default is True
plan_delete_resume_log_files == IF pipeline = "mc" THEN TRUE ELSE delLogs

\* variant: a cleanup that deletes nothing
clean_resume_files_Never(dir, files) == [dir |-> dir, files |-> files]

\* clean_resume_files: the file system <<dir, files>> it leaves
clean_resume_files(dir, files) ==
  IF plan_delete_resume_log_files THEN [dir |-> FALSE, files |-> {}]
  ELSE [dir |-> dir, files |-> files]

\* safe_to_resume: the file system it leaves
safe_to_resume(dir, files) ==
  LET kept == IF directory_has_contents(dir, files) /\ ~resume
              THEN clean_resume_files(dir, files)
              ELSE [dir |-> dir, files |-> files]
  IN  [dir |-> TRUE, files |-> kept.files]

done_file_exists(files, stage) == StageDoneFile(stage) \in files

touch_stage_done_file(files, stage) == files \cup {StageDoneFile(stage)}

touch_key_done_file(files, stage, key) == files \cup {KeyDoneFile(stage, key)}

\* variant: the done files of every stage directory are read
read_done_keys_AnyStage(files, stage) ==
  {f[3] : f \in {g \in files : g[1] = "key_done"}}

\* read_done_keys: the keys of the <key>_done files in the stage's directory
read_done_keys(files, stage) ==
  {f[3] : f \in {g \in files : g[1] = "key_done" /\ g[2] = stage}}

\* the aggregate error of wait_for_futures: it names the stage only
SomeStagesFailed(stage) ==
  [type |-> "RuntimeError", stage |-> stage, count |-> NoCount]

\* the error of wait_for_mapping / wait_for_reducing / wait_for_counting
DidNotComplete(stage, remaining) ==
  [type |-> "RuntimeError", stage |-> stage, count |-> Cardinality(remaining)]

ConfigError(stage) == [type |-> "ValueError", stage |-> stage, count |-> NoCount]

(* -------------------- nested light curves: data ----------------------- *)
\* destination buckets of an object pixel: the rows of its Alignment
\* with a positive count (pixel_list of _perform_nest)
pixel_list(p) == {p} \X (1..nBuckets[p])

\* variant: the reduce step is entered whether or not a source matched
non_empty_sources_Always(p) == nBuckets[p] >= 0

\* non_empty_sources of _do_mapping is non-empty iff some object matched,
\* which is iff the Alignment has a bucket with rows
non_empty_sources(p) == nBuckets[p] > 0

\* expected row count of a bucket in the Alignment (positive)
ExpectedRows(bucket) == bucket[2]

(* ----------------------- NestLightCurvePlan --------------------------- *)
counted_pixels(files) == {f[3] : f \in {g \in files : g[1] = "csv"}}

\* variant: every object pixel is counted again
get_sources_to_count_All(files) == ObjectPixels

\* object pixels without a completion CSV in tmp_path
get_sources_to_count(files) == ObjectPixels \ counted_pixels(files)

is_counting_done(files) == done_file_exists(files, COUNTING_STAGE)

\* neighbours of an object pixel among the source pixels; the two catalogs
\* are partitioned alike and the pixels lie on a ring
Neighbours(p) == {((p + NumObjectPixels - 2) % NumObjectPixels) + 1, (p % NumObjectPixels) + 1}

\* object_neighbor_map: object pixel -> its aligned source pixel, then the
\* neighbouring source pixels not yet listed
object_neighbor_map ==
  [p \in ObjectPixels |-> <<p>> \o SortedSeq(Neighbours(p) \ {p})]

\* np.savez_compressed(file, object_map): the pickled items of the dict
SavedMap(object_map) == {<<k, object_map[k]>> : k \in DOMAIN object_map}

\* np.load(file, allow_pickle=True)["arr_0"].item(): the dict of the pickled items
LoadedMap(contents) ==
  [k \in {item[1] : item \in contents} |-> (CHOOSE item \in contents : item[1] = k)[2]]

\* variant: the object map is computed and saved at every gathering
ncl_gather_plan_AlwaysComputes(dir, files, contents) ==
  LET fs == safe_to_resume(dir, files)
  IN  [dir |-> fs.dir, files |-> fs.files \cup {SOURCE_MAP_FILE},
       object_map |-> object_neighbor_map,
       contents |-> SavedMap(object_neighbor_map), computed |-> TRUE]

\* gather_plan: the file system it leaves, the object map the plan holds,
\* the contents of the cache file and whether the map was computed (it is
\* loaded from the cache file when that exists)
ncl_gather_plan(dir, files, contents) ==
  LET fs == safe_to_resume(dir, files)
  IN  IF SOURCE_MAP_FILE \in fs.files
      THEN [dir |-> fs.dir, files |-> fs.files,
            object_map |-> LoadedMap(contents), contents |-> contents, computed |-> FALSE]
      ELSE [dir |-> fs.dir, files |-> fs.files \cup {SOURCE_MAP_FILE},
            object_map |-> object_neighbor_map,
            contents |-> SavedMap(object_neighbor_map), computed |-> TRUE]

(* --------------------- _perform_nest, one task ------------------------ *)
Running(t) == t.pc \notin {"none", "done", "error"}

IdleTask == [pc |-> "none", todo |-> {}, cur |-> <<0, 0>>]

\* variant: the shards are removed before the row count is compared
_check_destination_file_DeletesFirst(contents, destination_pixel_size, bucket, delete_input_files, files) ==
  IF contents = Absent
  THEN [exc |-> "FileNotFoundError", files |-> files]
  ELSE [exc |-> IF contents # destination_pixel_size THEN "ValueError" ELSE "none",
        files |-> IF delete_input_files THEN files \ {ShardDir(bucket)} ELSE files]

\* _check_destination_file: the exception it raises ("none": returns True)
\* and the files it leaves below tmp_path
_check_destination_file(contents, destination_pixel_size, bucket, delete_input_files, files) ==
  IF contents = Absent
  THEN [exc |-> "FileNotFoundError", files |-> files]
  ELSE IF contents # destination_pixel_size
  THEN [exc |-> "ValueError", files |-> files]
  ELSE [exc |-> "none",
        files |-> IF delete_input_files THEN files \ {ShardDir(bucket)} ELSE files]

\* where _reduce_partitions goes after the resume shortcut accepted a bucket
AfterShortcut(t, bucket) == [t EXCEPT !.pc = "finishing", !.todo = {}]

\* where the loop of _reduce_partitions goes after a bucket was written and checked
AfterBucket(t, bucket) ==
  LET rest == t.todo \ {bucket}
  IN  [t EXCEPT !.todo = rest, !.cur = <<0, 0>>,
                !.pc = IF rest = {} THEN "finishing" ELSE "reducing"]

\* the exception of an I/O failure in a step of _perform_nest
StepError(step) == "OSError: " \o step

\* destination pixels lie one order below the object pixels, inside the
\* object pixel they were split from (generate_alignment with
\* lowest_order = object_pixel.order): the nested child number
DestinationPixel(bucket) == 4 * bucket[1] + (bucket[2] - 1)

\* get_pixel_cache_directory(tmp_path, destination_pixel), below tmp_path
get_pixel_cache_directory(order, pixel) ==
  "order_" \o ToString(order) \o "/dir_" \o ToString((pixel \div 10000) * 10000)
    \o "/pixel_" \o ToString(pixel)

\* paths.new_pixel_catalog_file(catalog_path, destination_pixel), below catalog_path
new_pixel_catalog_file(order, pixel) ==
  "dataset/Norder=" \o ToString(order) \o "/Dir=" \o ToString((pixel \div 10000) * 10000)
    \o "/Npix=" \o ToString(pixel) \o ".parquet"

\* the shard directory and the output file of a destination bucket
PixelDir(bucket) == get_pixel_cache_directory(1, DestinationPixel(bucket))
DestinationFile(bucket) == new_pixel_catalog_file(1, DestinationPixel(bucket))

\* tmp_path / f"{object_pixel.order}_{object_pixel.pixel}.csv"
CsvPath(p) == ToString(0) \o "_" \o ToString(p) \o ".csv"

\* the record of the paths a task created or deleted
Written(key, paths) == writes \cup ({key} \X paths)

\* variant: the failure is reported as a new RuntimeError
_perform_nest_except_Wrapped(p, exception) ==
  /\ task' = [task EXCEPT ![p].pc = "error"]
  /\ taskLog' = taskLog \cup {<<p, exception>>}
  /\ taskExc' = [taskExc EXCEPT ![p] = "RuntimeError"]

\* the except clause of _perform_nest: print_task_failure with the object
\* pixel, then the exception is raised again
_perform_nest_except(p, exception) ==
  /\ task' = [task EXCEPT ![p].pc = "error"]
  /\ taskLog' = taskLog \cup {<<p, exception>>}
  /\ taskExc' = [taskExc EXCEPT ![p] = exception]

\* _do_mapping (reads only) and _split_to_partitions, which writes the
\* shards of every bucket; then the reduce step runs only if some source
\* partition matched. A failure of _do_mapping leaves nothing behind, a
\* failure of _split_to_partitions the shards written before it.
_perform_nest_split(p) ==
  /\ pipeline = "ncl" /\ task[p].pc = "mapping"
  /\ IF failAt[p] = "mapping"
     THEN /\ _perform_nest_except(p, StepError("mapping"))
          /\ UNCHANGED <<tmp, writes>>
     ELSE IF failAt[p] = "splitting"
     THEN /\ \E shards \in SUBSET pixel_list(p) :
               /\ tmp' = tmp \cup {ShardDir(b) : b \in shards}
               /\ writes' = Written(p, {PixelDir(b) : b \in shards})
          /\ _perform_nest_except(p, StepError("splitting"))
     ELSE /\ tmp' = tmp \cup {ShardDir(b) : b \in pixel_list(p)}
          /\ writes' = Written(p, {PixelDir(b) : b \in pixel_list(p)})
          /\ task' = [task EXCEPT ![p] =
                IF non_empty_sources(p)
                THEN [pc |-> "reducing", todo |-> pixel_list(p), cur |-> <<0, 0>>]
                ELSE [pc |-> "finishing", todo |-> {}, cur |-> <<0, 0>>]]
          /\ UNCHANGED <<taskExc, taskLog>>
  /\ UNCHANGED <<pipeline, resume, delLogs, delShards, nBuckets, marginRows, tmpDir,
                 out, catalog, ctl, countKeys, totalRows, rtask, raised, crashes, lastOp, wvars, ivars, gvars, failAt, mvars, xvars>>

\* _reduce_partitions, head of one loop iteration: the resume shortcut
\* and, when it does not accept the bucket, reading the shards and opening
\* the destination file for writing (an interrupted write leaves a short
\* file). pixel_list is a set, so the next bucket is any one not yet visited.
\* Reading the object partition or the shards may fail.
_reduce_partitions_begin(p) ==
  /\ pipeline = "ncl" /\ task[p].pc = "reducing"
  /\ IF failAt[p] = "reducing"
     THEN /\ _perform_nest_except(p, StepError("reducing"))
          /\ UNCHANGED <<tmp, out, writes>>
     ELSE \E b \in task[p].todo :
       LET chk == _check_destination_file(out[b], ExpectedRows(b), b, delShards, tmp)
       IN  IF chk.exc = "none"
           THEN /\ tmp' = chk.files
                /\ out' = out
                /\ writes' = Written(p, IF delShards THEN {PixelDir(b)} ELSE {})
                /\ task' = [task EXCEPT ![p] = AfterShortcut(task[p], b)]
                /\ UNCHANGED <<taskExc, taskLog>>
           ELSE /\ tmp' = tmp
                /\ IF ShardDir(b) \in tmp
                   THEN /\ out' = [out EXCEPT ![b] = Partial]
                        /\ writes' = Written(p, {DestinationFile(b)})
                        /\ task' = [task EXCEPT ![p].pc = "writing", ![p].cur = b]
                        /\ UNCHANGED <<taskExc, taskLog>>
                   ELSE /\ out' = out
                        /\ writes' = writes
                        /\ _perform_nest_except(p, "FileNotFoundError")
  /\ UNCHANGED <<pipeline, resume, delLogs, delShards, nBuckets, marginRows, tmpDir,
                 catalog, ctl, countKeys, totalRows, rtask, raised, crashes, lastOp, wvars, ivars, gvars, failAt, mvars, xvars>>

\* _reduce_partitions, rest of the iteration: to_parquet completes (the
\* file holds the joined rows) and the written file is checked; a failed
\* check propagates
_reduce_partitions_write(p) ==
  /\ pipeline = "ncl" /\ task[p].pc = "writing"
  /\ LET b == task[p].cur
         chk == _check_destination_file(ExpectedRows(b), ExpectedRows(b), b, delShards, tmp)
     IN  /\ out' = [out EXCEPT ![b] = ExpectedRows(b)]
         /\ IF chk.exc = "none"
            THEN /\ tmp' = chk.files
                 /\ writes' = Written(p, {DestinationFile(b)} \cup
                                         (IF delShards THEN {PixelDir(b)} ELSE {}))
                 /\ task' = [task EXCEPT ![p] = AfterBucket(task[p], b)]
                 /\ UNCHANGED <<taskExc, taskLog>>
            ELSE /\ tmp' = tmp
                 /\ writes' = Written(p, {DestinationFile(b)})
                 /\ _perform_nest_except(p, chk.exc)
  /\ UNCHANGED <<pipeline, resume, delLogs, delShards, nBuckets, marginRows, tmpDir,
                 catalog, ctl, countKeys, totalRows, rtask, raised, crashes, lastOp, wvars, ivars, gvars, failAt, mvars, xvars>>

\* _write_partition_info: the completion CSV of the object pixel
_write_partition_info(p) ==
  /\ pipeline = "ncl" /\ task[p].pc = "finishing"
  /\ IF failAt[p] = "finishing"
     THEN /\ _perform_nest_except(p, StepError("finishing"))
          /\ UNCHANGED <<tmp, writes>>
     ELSE /\ tmp' = tmp \cup {CsvFile(p)}
          /\ writes' = Written(p, {CsvPath(p)})
          /\ task' = [task EXCEPT ![p].pc = "done"]
          /\ UNCHANGED <<taskExc, taskLog>>
  /\ UNCHANGED <<pipeline, resume, delLogs, delShards, nBuckets, marginRows, tmpDir,
                 out, catalog, ctl, countKeys, totalRows, rtask, raised, crashes, lastOp, wvars, ivars, gvars, failAt, mvars, xvars>>

(* ------------------ nested light curves: run() ------------------------ *)
Keys == IF pipeline = "ncl" THEN ObjectPixels ELSE PartitionPixels
OutFiles == IF pipeline = "ncl" THEN AllBuckets ELSE PartitionPixels \X {1}

\* the controller is not inside an invocation
Stopped == ctl \in {"init", "failed", "crashed", "success"}

\* tasks handed to client.submit for the keys of a work list
Submitted(keys, pc) ==
  [k \in Keys |-> IF k \in keys THEN [pc |-> pc, todo |-> {}, cur |-> <<0, 0>>] ELSE IdleTask]

\* rows listed by the completion CSV of an object pixel
CsvRows == [p \in ObjectPixels |-> SumOver(pixel_list(p), [b \in pixel_list(p) |-> ExpectedRows(b)])]

\* rows of the data files in catalog_path, as write_parquet_metadata totals them
MetadataRows ==
  LET present == {b \in OutFiles : out[b] # Absent}
  IN  SumOver(present, [b \in present |-> out[b]])

\* NestLightCurvePlan(args): gather_plan
run_gather_plan ==
  /\ pipeline = "ncl" /\ Stopped
  /\ LET fs == ncl_gather_plan(tmpDir, tmp, mapFileContents)
     IN  /\ tmpDir' = fs.dir
         /\ tmp' = fs.files
         /\ countKeys' = get_sources_to_count(fs.files)
         /\ objectMap' = fs.object_map
         /\ mapFileContents' = fs.contents
         /\ computed' = fs.computed
  /\ ctl' = "planned"
  /\ raised' = NoError
  /\ task' = [k \in Keys |-> IdleTask]
  /\ taskExc' = [p \in ObjectPixels |-> "none"]
  /\ taskLog' = {}
  /\ writes' = {}
  /\ totalRows' = 0
  /\ UNCHANGED <<pipeline, resume, delLogs, delShards, nBuckets, marginRows,
                 out, catalog, rtask, crashes, lastOp, wvars, ivars, failAt, mvars, xvars>>

\* run: one _perform_nest per entry of count_keys, unless counting is done
run_submit ==
  /\ pipeline = "ncl" /\ ctl = "planned"
  /\ IF is_counting_done(tmp)
     THEN /\ ctl' = "finishing"
          /\ task' = task
     ELSE /\ ctl' = "counting"
          /\ task' = Submitted(countKeys, "mapping")
  /\ UNCHANGED <<pipeline, resume, delLogs, delShards, nBuckets, marginRows, tmpDir, tmp,
                 out, catalog, countKeys, totalRows, rtask, raised, crashes, lastOp, wvars, ivars, others>>

\* variant: a stage wait that does not re-read the remaining keys
WaitOutcome_NoRescan(stage, anyError, remaining) ==
  IF anyError THEN SomeStagesFailed(stage) ELSE NoError

\* what a stage wait does once every future has resolved: the error it
\* raises (NoError: it touches the stage marker)
WaitOutcome(stage, anyError, remaining) ==
  IF anyError THEN SomeStagesFailed(stage)
  ELSE IF remaining # {} THEN DidNotComplete(stage, remaining)
  ELSE NoError

\* wait_for_counting
wait_for_counting ==
  /\ pipeline = "ncl" /\ ctl = "counting"
  /\ \A k \in Keys : ~Running(task[k])
  /\ LET res == WaitOutcome(COUNTING_STAGE, \E k \in Keys : task[k].pc = "error",
                            get_sources_to_count(tmp))
     IN  IF res = NoError
         THEN /\ tmp' = touch_stage_done_file(tmp, COUNTING_STAGE)
              /\ ctl' = "finishing"
              /\ raised' = raised
         ELSE /\ tmp' = tmp
              /\ ctl' = "failed"
              /\ raised' = res
  /\ UNCHANGED <<pipeline, resume, delLogs, delShards, nBuckets, marginRows, tmpDir,
                 out, catalog, countKeys, totalRows, task, rtask, crashes, lastOp, wvars, ivars, others>>

\* variant: whatever partial CSVs exist are combined
combine_partial_results_SkipsMissing(object_map, files) ==
  IF object_map = <<>>
  THEN [exc |-> ConfigError("combine"), written |-> FALSE, total |-> 0]
  ELSE [exc |-> NoError, written |-> TRUE,
        total |-> SumOver(counted_pixels(files), [p \in counted_pixels(files) |-> CsvRows[p]])]

\* combine_partial_results: the error it raises, whether partition_info.csv
\* is written, and the sum of num_rows it returns
combine_partial_results(object_map, files) ==
  IF object_map = <<>>
  THEN [exc |-> ConfigError("combine"), written |-> FALSE, total |-> 0]
  ELSE IF DOMAIN object_map \ counted_pixels(files) # {}
  THEN [exc |-> ConfigError("combine"), written |-> FALSE, total |-> 0]
  ELSE [exc |-> NoError, written |-> TRUE,
        total |-> SumOver(counted_pixels(files), [p \in counted_pixels(files) |-> CsvRows[p]])]

\* variant: the totals are not compared
run_combine_NoCheck ==
  /\ pipeline = "ncl" /\ ctl = "finishing"
  /\ LET c == combine_partial_results(objectMap, tmp)
     IN  IF c.exc # NoError
         THEN /\ raised' = c.exc
              /\ ctl' = "failed"
              /\ UNCHANGED <<catalog, totalRows>>
         ELSE /\ totalRows' = c.total
              /\ catalog' = catalog \cup {"partition_info", "_metadata"}
              /\ raised' = raised /\ ctl' = "properties"
  /\ UNCHANGED <<pipeline, resume, delLogs, delShards, nBuckets, marginRows, tmpDir, tmp,
                 out, countKeys, task, rtask, crashes, lastOp, wvars, ivars, others>>

\* run, finishing: combine_partial_results, write_parquet_metadata and
\* the comparison of the two totals
run_combine ==
  /\ pipeline = "ncl" /\ ctl = "finishing"
  /\ LET c == combine_partial_results(objectMap, tmp)
     IN  IF c.exc # NoError
         THEN /\ raised' = c.exc
              /\ ctl' = "failed"
              /\ UNCHANGED <<catalog, totalRows>>
         ELSE /\ totalRows' = c.total
              /\ catalog' = catalog \cup {"partition_info", "_metadata"}
              /\ IF c.total # MetadataRows
                 THEN raised' = ConfigError("finishing") /\ ctl' = "failed"
                 ELSE raised' = raised /\ ctl' = "properties"
  /\ UNCHANGED <<pipeline, resume, delLogs, delShards, nBuckets, marginRows, tmpDir, tmp,
                 out, countKeys, task, rtask, crashes, lastOp, wvars, ivars, others>>

\* run, finishing: the catalog properties file
run_properties ==
  /\ pipeline = "ncl" /\ ctl = "properties"
  /\ catalog' = catalog \cup {"properties"}
  /\ ctl' = "cleaning"
  /\ UNCHANGED <<pipeline, resume, delLogs, delShards, nBuckets, marginRows, tmpDir, tmp,
                 out, countKeys, totalRows, task, rtask, raised, crashes, lastOp, wvars, ivars, others>>

\* run, finishing: resume_plan.clean_resume_files()
run_clean ==
  /\ pipeline = "ncl" /\ ctl = "cleaning"
  /\ LET fs == clean_resume_files(tmpDir, tmp)
     IN  tmpDir' = fs.dir /\ tmp' = fs.files
  /\ ctl' = "success"
  /\ UNCHANGED <<pipeline, resume, delLogs, delShards, nBuckets, marginRows,
                 out, catalog, countKeys, totalRows, task, rtask, raised, crashes, lastOp, wvars, ivars, others>>

(* ------------------------- MarginCachePlan ---------------------------- *)
is_mapping_done(files) == done_file_exists(files, MAPPING_STAGE)

is_reducing_done(files) == done_file_exists(files, REDUCING_STAGE)

\* partition_pixels without a mapping/<key>_done marker
get_remaining_map_keys(files) == PartitionPixels \ read_done_keys(files, MAPPING_STAGE)

\* combined_pixels without a reducing/<key>_done marker
get_remaining_reduce_keys(files) == PartitionPixels \ read_done_keys(files, REDUCING_STAGE)

\* variant: the margin pairs are computed and written at every gathering
margin_pairs_computed_Always(files) == TRUE

\* _gather_plan computes the margin pairs and writes margin_pair.csv when
\* the file does not exist
margin_pairs_computed(files) == MARGIN_PAIR_FILE \notin files

\* variant: the order of the stage markers is not checked
mc_gather_plan_NoOrderCheck(dir, files) ==
  LET fs == safe_to_resume(dir, files)
  IN  [exc |-> NoError, dir |-> fs.dir, computed |-> margin_pairs_computed(fs.files),
       files |-> fs.files \cup {MARGIN_PAIR_FILE, StageDir(MAPPING_STAGE), StageDir(REDUCING_STAGE)}]

\* _gather_plan: the error it raises, the file system it leaves and
\* whether the margin pairs were computed (they are when margin_pair.csv is absent)
mc_gather_plan(dir, files) ==
  LET fs == safe_to_resume(dir, files)
  IN  IF is_reducing_done(fs.files) /\ ~is_mapping_done(fs.files)
      THEN [exc |-> ConfigError("planning"), dir |-> fs.dir, files |-> fs.files, computed |-> FALSE]
      ELSE [exc |-> NoError, dir |-> fs.dir, computed |-> margin_pairs_computed(fs.files),
            files |-> fs.files \cup {MARGIN_PAIR_FILE, StageDir(MAPPING_STAGE), StageDir(REDUCING_STAGE)}]

\* get_mapping_total: the rows recorded by the completed mapping tasks
get_mapping_total(files) ==
  LET done == read_done_keys(files, MAPPING_STAGE) \cap PartitionPixels
  IN  SumOver(done, [k \in done |-> marginRows[k]])

(* ----------------------- margin cache: tasks -------------------------- *)
\* the destination pixel whose margin the rows of a partition fall into
Dest(k) == (k % NumPartitionPixels) + 1

MarginShard(k) == <<"shard", "", Dest(k), k>>

ShardsOf(files, d) == {f \in files : f[1] = "shard" /\ f[3] = d}

\* what a mapping task ran with: the pairs it read from margin_pair_file
\* (given by the margin_order they were computed for) and the margin_order
\* and margin_threshold passed by generate_margin_cache
MappedWith(pairs, args) ==
  [pairs |-> pairs, margin_order |-> args.margin_order, margin_threshold |-> args.margin_threshold]

\* map_pixel_shards: the shard of the rows found, if any
map_pixel_shards(k) ==
  /\ pipeline = "mc" /\ task[k].pc = "mapping"
  /\ tmp' = IF marginRows[k] > 0 THEN tmp \cup {MarginShard(k)} ELSE tmp
  /\ task' = [task EXCEPT ![k].pc = "marking"]
  /\ mappedWith' = [mappedWith EXCEPT ![k] = MappedWith(pairsOrder, mcArgs)]
  /\ UNCHANGED <<pipeline, resume, delLogs, delShards, nBuckets, marginRows, tmpDir,
                 out, catalog, ctl, countKeys, totalRows, rtask, raised, crashes, lastOp, wvars, ivars,
                 gvars, evars, mvars, hvars, cvars, vvars, mcArgs, pairsOrder, lastCall, fvars>>

\* map_pixel_shards, last step: MarginCachePlan.mapping_key_done
mapping_key_done(k) ==
  /\ pipeline = "mc" /\ task[k].pc = "marking"
  /\ tmp' = touch_key_done_file(tmp, MAPPING_STAGE, k)
  /\ task' = [task EXCEPT ![k].pc = "done"]
  /\ UNCHANGED <<pipeline, resume, delLogs, delShards, nBuckets, marginRows, tmpDir,
                 out, catalog, ctl, countKeys, totalRows, rtask, raised, crashes, lastOp, wvars, ivars, others>>

\* reduce_margin_shards: merge the shards of the pixel, if it has any
reduce_margin_shards(d) ==
  /\ pipeline = "mc" /\ rtask[d].pc = "reducing"
  /\ LET shards == ShardsOf(tmp, d)
     IN  IF shards # {}
         THEN /\ out' = [out EXCEPT ![<<d, 1>>] = SumOver(shards, [f \in shards |-> marginRows[f[4]]])]
              /\ tmp' = IF delShards THEN tmp \ shards ELSE tmp
         ELSE /\ out' = out
              /\ tmp' = tmp
  /\ rtask' = [rtask EXCEPT ![d].pc = "marking"]
  /\ UNCHANGED <<pipeline, resume, delLogs, delShards, nBuckets, marginRows, tmpDir,
                 catalog, ctl, countKeys, totalRows, task, raised, crashes, lastOp, wvars, ivars, others>>

\* reduce_margin_shards, last step: MarginCachePlan.reducing_key_done
reducing_key_done(d) ==
  /\ pipeline = "mc" /\ rtask[d].pc = "marking"
  /\ tmp' = touch_key_done_file(tmp, REDUCING_STAGE, d)
  /\ rtask' = [rtask EXCEPT ![d].pc = "done"]
  /\ UNCHANGED <<pipeline, resume, delLogs, delShards, nBuckets, marginRows, tmpDir,
                 out, catalog, ctl, countKeys, totalRows, task, raised, crashes, lastOp, wvars, ivars, others>>

(* --------------- margin cache: generate_margin_cache ------------------ *)
\* MarginCachePlan(args) and the margin schema file
generate_plan ==
  /\ pipeline = "mc" /\ Stopped
  /\ LET g == mc_gather_plan(tmpDir, tmp)
     IN  /\ tmpDir' = g.dir
         /\ raised' = g.exc
         /\ computed' = g.computed
         /\ pairsOrder' = IF g.exc = NoError /\ g.computed THEN mcArgs.margin_order ELSE pairsOrder
         /\ IF g.exc = NoError
            THEN tmp' = g.files \cup {MARGIN_SCHEMA_FILE} /\ ctl' = "planned"
            ELSE tmp' = g.files /\ ctl' = "failed"
  /\ task' = [k \in Keys |-> IdleTask]
  /\ rtask' = [k \in PartitionPixels |-> IdleTask]
  /\ totalRows' = 0
  /\ UNCHANGED <<pipeline, resume, delLogs, delShards, nBuckets, marginRows,
                 out, catalog, countKeys, crashes, lastOp, wvars, ivars,
                 objectMap, mapFileContents, evars, mvars, hvars, cvars, vvars,
                 mcArgs, mappedWith, lastCall, fvars>>

\* one map_pixel_shards per remaining map key, unless mapping is done
generate_submit_mapping ==
  /\ pipeline = "mc" /\ ctl = "planned"
  /\ IF is_mapping_done(tmp)
     THEN /\ ctl' = "binning"
          /\ task' = task
     ELSE /\ ctl' = "mapping"
          /\ task' = Submitted(get_remaining_map_keys(tmp), "mapping")
  /\ UNCHANGED <<pipeline, resume, delLogs, delShards, nBuckets, marginRows, tmpDir, tmp,
                 out, catalog, countKeys, totalRows, rtask, raised, crashes, lastOp, wvars, ivars, others>>

\* variant: wait_for_mapping without touch_stage_done_file
wait_for_mapping_NoMarker ==
  /\ pipeline = "mc" /\ ctl = "mapping"
  /\ \A k \in Keys : ~Running(task[k])
  /\ LET res == WaitOutcome(MAPPING_STAGE, \E k \in Keys : task[k].pc = "error",
                            get_remaining_map_keys(tmp))
     IN  IF res = NoError
         THEN /\ tmp' = tmp
              /\ ctl' = "binning"
              /\ raised' = raised
         ELSE /\ tmp' = tmp
              /\ ctl' = "failed"
              /\ raised' = res
  /\ UNCHANGED <<pipeline, resume, delLogs, delShards, nBuckets, marginRows, tmpDir,
                 out, catalog, countKeys, totalRows, task, rtask, crashes, lastOp, wvars, ivars, others>>

\* wait_for_mapping: the stage marker is touched when nothing failed and no key remains
wait_for_mapping ==
  /\ pipeline = "mc" /\ ctl = "mapping"
  /\ \A k \in Keys : ~Running(task[k])
  /\ LET res == WaitOutcome(MAPPING_STAGE, \E k \in Keys : task[k].pc = "error",
                            get_remaining_map_keys(tmp))
     IN  IF res = NoError
         THEN /\ tmp' = touch_stage_done_file(tmp, MAPPING_STAGE)
              /\ ctl' = "binning"
              /\ raised' = raised
         ELSE /\ tmp' = tmp
              /\ ctl' = "failed"
              /\ raised' = res
  /\ UNCHANGED <<pipeline, resume, delLogs, delShards, nBuckets, marginRows, tmpDir,
                 out, catalog, countKeys, totalRows, task, rtask, crashes, lastOp, wvars, ivars, others>>

\* variant: an empty margin cache is not refused
generate_submit_reducing_NoZeroCheck ==
  /\ pipeline = "mc" /\ ctl = "binning"
  /\ totalRows' = get_mapping_total(tmp)
  /\ raised' = raised
  /\ IF is_reducing_done(tmp)
     THEN ctl' = "finishing" /\ rtask' = rtask
     ELSE /\ ctl' = "reducing"
          /\ rtask' = [k \in PartitionPixels |->
               IF k \in get_remaining_reduce_keys(tmp)
               THEN [pc |-> "reducing", todo |-> {}, cur |-> <<0, 0>>]
               ELSE IdleTask]
  /\ UNCHANGED <<pipeline, resume, delLogs, delShards, nBuckets, marginRows, tmpDir, tmp,
                 out, catalog, countKeys, task, crashes, lastOp, wvars, ivars, others>>

\* binning, then one reduce_margin_shards per remaining reduce key,
\* unless reducing is done
generate_submit_reducing ==
  /\ pipeline = "mc" /\ ctl = "binning"
  /\ totalRows' = get_mapping_total(tmp)
  /\ IF get_mapping_total(tmp) = 0
     THEN /\ raised' = ConfigError("binning")
          /\ ctl' = "failed"
          /\ rtask' = rtask
     ELSE /\ raised' = raised
          /\ IF is_reducing_done(tmp)
             THEN ctl' = "finishing" /\ rtask' = rtask
             ELSE /\ ctl' = "reducing"
                  /\ rtask' = [k \in PartitionPixels |->
                       IF k \in get_remaining_reduce_keys(tmp)
                       THEN [pc |-> "reducing", todo |-> {}, cur |-> <<0, 0>>]
                       ELSE IdleTask]
  /\ UNCHANGED <<pipeline, resume, delLogs, delShards, nBuckets, marginRows, tmpDir, tmp,
                 out, catalog, countKeys, task, crashes, lastOp, wvars, ivars, others>>

wait_for_reducing ==
  /\ pipeline = "mc" /\ ctl = "reducing"
  /\ \A k \in PartitionPixels : ~Running(rtask[k])
  /\ LET res == WaitOutcome(REDUCING_STAGE, \E k \in PartitionPixels : rtask[k].pc = "error",
                            get_remaining_reduce_keys(tmp))
     IN  IF res = NoError
         THEN /\ tmp' = touch_stage_done_file(tmp, REDUCING_STAGE)
              /\ ctl' = "finishing"
              /\ raised' = raised
         ELSE /\ tmp' = tmp
              /\ ctl' = "failed"
              /\ raised' = res
  /\ UNCHANGED <<pipeline, resume, delLogs, delShards, nBuckets, marginRows, tmpDir,
                 out, catalog, countKeys, totalRows, task, rtask, crashes, lastOp, wvars, ivars, others>>

\* finishing: _metadata, the comparison of the totals, the partition listing
generate_metadata ==
  /\ pipeline = "mc" /\ ctl = "finishing"
  /\ IF MetadataRows # totalRows
     THEN /\ catalog' = catalog \cup {"_metadata"}
          /\ raised' = ConfigError("finishing")
          /\ ctl' = "failed"
     ELSE /\ catalog' = catalog \cup {"_metadata", "partition_info"}
          /\ raised' = raised
          /\ ctl' = "properties"
  /\ UNCHANGED <<pipeline, resume, delLogs, delShards, nBuckets, marginRows, tmpDir, tmp,
                 out, countKeys, totalRows, task, rtask, crashes, lastOp, wvars, ivars, others>>

\* finishing: the properties file, then file_io.remove_directory(tmp_path)
generate_properties ==
  /\ pipeline = "mc" /\ ctl = "properties"
  /\ catalog' = catalog \cup {"properties"}
  /\ tmpDir' = FALSE
  /\ tmp' = {}
  /\ ctl' = "success"
  /\ UNCHANGED <<pipeline, resume, delLogs, delShards, nBuckets, marginRows,
                 out, countKeys, totalRows, task, rtask, raised, crashes, lastOp, wvars, ivars, others>>

(* --------------------------- interruptions ---------------------------- *)
Killed(t) == IF Running(t) THEN [t EXCEPT !.pc = "error"] ELSE t

\* the controller process is interrupted; its tasks die with it
ControllerCrash ==
  /\ ~Stopped /\ crashes < MaxCrashes
  /\ ctl' = "crashed"
  /\ task' = [k \in Keys |-> Killed(task[k])]
  /\ rtask' = [k \in PartitionPixels |-> Killed(rtask[k])]
  /\ crashes' = crashes + 1
  /\ UNCHANGED <<pipeline, resume, delLogs, delShards, nBuckets, marginRows, tmpDir, tmp,
                 out, catalog, countKeys, totalRows, raised, lastOp, wvars, ivars, others>>

\* one task is interrupted (its worker dies): the future ends in error
TaskCrash(k) ==
  /\ crashes < MaxCrashes
  /\ \/ /\ Running(task[k])
        /\ task' = [task EXCEPT ![k] = Killed(task[k])]
        /\ rtask' = rtask
     \/ /\ k \in PartitionPixels /\ Running(rtask[k])
        /\ rtask' = [rtask EXCEPT ![k] = Killed(rtask[k])]
        /\ task' = task
  /\ crashes' = crashes + 1
  /\ UNCHANGED <<pipeline, resume, delLogs, delShards, nBuckets, marginRows, tmpDir, tmp,
                 out, catalog, ctl, countKeys, totalRows, raised, lastOp, wvars, ivars, others>>

(* --------------------------- specification ---------------------------- *)
\* no call of a wait function is modelled
WaitIdle ==
  /\ wEntry = "none" /\ wStage = "" /\ failFast = FALSE
  /\ fut = <<>> /\ seen = <<>> /\ someError = FALSE /\ wpc = "none"

\* no call of check_original_input_paths is modelled
PathsIdle ==
  /\ logExists = FALSE /\ logLines = <<>> /\ calls = 0
  /\ firstInput = <<>> /\ lastInput = <<>> /\ lastResult = "none" /\ prevLog = <<>>

\* no plan has cached anything
CacheIdle ==
  /\ objectMap = <<>> /\ mapFileContents = {} /\ computed = FALSE

\* no _perform_nest task has failed
NoTaskFailed ==
  /\ taskExc = [p \in ObjectPixels |-> "none"]
  /\ taskLog = {}

\* no _perform_nest task has failed and no I/O failure is due
NoFailures ==
  /\ failAt = [p \in ObjectPixels |-> "none"]
  /\ NoTaskFailed

\* no task has written anything
NoWrites == writes = {}

\* None, for a path and for an arguments object
NoPath == <<>>
NoArgs == <<>>

\* no call on a collection builder is modelled
BuilderIdle ==
  /\ disk = {} /\ newCatalogPath = NoPath /\ catalogArgs = NoArgs
  /\ marginKwargs = <<>> /\ indexKwargs = <<>> /\ marginArgs = <<>> /\ indexArgs = <<>>
  /\ cLast = [op |-> "none", kwargs |-> <<>>, exc |-> "none"] /\ catalogCalls = 0

\* no verification is modelled
VerifierIdle ==
  /\ vData = <<>> /\ vResults = <<>> /\ vpc = "idle" /\ vMode = "a" /\ vCheck = FALSE
  /\ report = <<>> /\ runLog = <<>> /\ vRuns = 0

\* the margin cache arguments are the first ones and nothing was computed
ArgsIdle ==
  /\ mcArgs = [margin_order |-> 1, margin_threshold |-> 5]
  /\ pairsOrder = Absent
  /\ mappedWith = [k \in PartitionPixels |-> NoArgs]

\* no library function was called
CallsIdle == lastCall = [op |-> "none", returned |-> FALSE]

\* no FITS file is read
FitsIdle ==
  /\ fitsTable = <<>> /\ chunksize = 1 /\ fitsChunks = <<>> /\ fitsReads = <<>>
  /\ fitsGen = [pc |-> "none", i_start |-> 0, table |-> <<>>, open |-> FALSE]

\* no map_to_pixels task is modelled
MapIdle ==
  /\ mapData = <<>> /\ mapTask = <<>> /\ cacheFiles = {} /\ histo = <<>>

\* no invocation of a pipeline has started
RunIdle ==
  /\ out = [b \in OutFiles |-> Absent]
  /\ catalog = {}
  /\ ctl = "init"
  /\ totalRows = 0
  /\ task = [k \in Keys |-> IdleTask]
  /\ rtask = [k \in PartitionPixels |-> IdleTask]
  /\ crashes = 0

\* tmp_path does not exist yet
FsEmpty ==
  /\ tmpDir = FALSE /\ tmp = {} /\ countKeys = {} /\ raised = NoError /\ lastOp = <<"none", "none">>

NoData ==
  /\ nBuckets = [p \in ObjectPixels |-> 0]
  /\ marginRows = [k \in PartitionPixels |-> 0]

Init ==
  /\ pipeline \in {"ncl", "mc"}
  /\ resume \in BOOLEAN
  /\ delLogs \in BOOLEAN
  /\ delShards \in BOOLEAN
  /\ IF pipeline = "ncl"
     THEN /\ nBuckets \in [ObjectPixels -> 0..MaxBuckets]
          /\ marginRows = [k \in PartitionPixels |-> 0]
     ELSE /\ nBuckets = [p \in ObjectPixels |-> 0]
          /\ marginRows \in [PartitionPixels -> 0..MaxMarginRows]
  /\ RunIdle /\ FsEmpty /\ WaitIdle /\ PathsIdle
  /\ CacheIdle /\ NoFailures /\ MapIdle /\ NoWrites /\ BuilderIdle /\ VerifierIdle
  /\ ArgsIdle /\ CallsIdle /\ FitsIdle


(* ------------------- the resume plan, used directly ------------------- *)
\* expected keys of a stage
StageKeys(stage) == IF stage = COUNTING_STAGE THEN ObjectPixels ELSE PartitionPixels

\* keys of a stage that lack their completion marker
Remaining(stage, files) ==
  IF stage = COUNTING_STAGE THEN get_sources_to_count(files)
  ELSE IF stage = MAPPING_STAGE THEN get_remaining_map_keys(files)
  ELSE get_remaining_reduce_keys(files)

Stages == IF pipeline = "ncl" THEN {COUNTING_STAGE} ELSE {MAPPING_STAGE, REDUCING_STAGE}

\* the completion marker of a key: the completion CSV of an object pixel,
\* or <stage>/<key>_done
KeyMarker(stage, key) ==
  IF stage = COUNTING_STAGE THEN CsvFile(key) ELSE KeyDoneFile(stage, key)

\* remaining work of a stage as the plan reports it
PlanRemaining(stage) ==
  IF stage = COUNTING_STAGE THEN countKeys
  ELSE IF stage = MAPPING_STAGE THEN get_remaining_map_keys(tmp)
  ELSE get_remaining_reduce_keys(tmp)

\* NestLightCurvePlan.gather_plan / MarginCachePlan._gather_plan
gather_plan ==
  /\ IF pipeline = "ncl"
     THEN LET fs == ncl_gather_plan(tmpDir, tmp, mapFileContents)
          IN  /\ tmpDir' = fs.dir
              /\ tmp' = fs.files
              /\ countKeys' = get_sources_to_count(fs.files)
              /\ raised' = NoError
              /\ objectMap' = fs.object_map
              /\ mapFileContents' = fs.contents
              /\ computed' = fs.computed
     ELSE LET g == mc_gather_plan(tmpDir, tmp)
          IN  /\ tmpDir' = g.dir
              /\ tmp' = g.files
              /\ countKeys' = countKeys
              /\ raised' = g.exc
              /\ computed' = g.computed
              /\ UNCHANGED <<objectMap, mapFileContents>>
  /\ lastOp' = <<lastOp[2], "gather">>
  /\ UNCHANGED <<argvars, runvars, wvars, ivars, evars, mvars, hvars, xvars>>

\* a task marks its key: touch_key_done_file, or the completion CSV
plan_key_done(stage, key) ==
  /\ lastOp[2] # "none" /\ stage \in Stages
  /\ IF stage = COUNTING_STAGE THEN tmpDir ELSE StageDir(stage) \in tmp
  /\ tmp' = IF stage = COUNTING_STAGE THEN tmp \cup {CsvFile(key)}
            ELSE touch_key_done_file(tmp, stage, key)
  /\ lastOp' = <<lastOp[2], "key_done">>
  /\ UNCHANGED <<argvars, runvars, tmpDir, countKeys, raised, wvars, ivars, others>>

\* touch_stage_done_file
plan_stage_done(stage) ==
  /\ lastOp[2] # "none" /\ stage \in Stages /\ tmpDir
  /\ tmp' = touch_stage_done_file(tmp, stage)
  /\ lastOp' = <<lastOp[2], "stage_done">>
  /\ UNCHANGED <<argvars, runvars, tmpDir, countKeys, raised, wvars, ivars, others>>

\* clean_resume_files
plan_clean ==
  /\ lastOp[2] # "none"
  /\ LET fs == clean_resume_files(tmpDir, tmp)
     IN  tmpDir' = fs.dir /\ tmp' = fs.files
  /\ lastOp' = <<lastOp[2], IF \E stage \in Stages : Remaining(stage, tmp) = {}
                             THEN "clean_complete" ELSE "clean">>
  /\ UNCHANGED <<argvars, runvars, countKeys, raised, wvars, ivars, others>>

\* combine_partial_results(catalog_path), called on the plan
plan_combine ==
  /\ pipeline = "ncl" /\ lastOp[2] # "none"
  /\ LET c == combine_partial_results(objectMap, tmp)
     IN  /\ raised' = c.exc
         /\ catalog' = IF c.written THEN catalog \cup {"partition_info"} ELSE catalog
         /\ totalRows' = IF c.exc = NoError THEN c.total ELSE totalRows
  /\ lastOp' = <<lastOp[2], "combine">>
  /\ UNCHANGED <<argvars, out, ctl, task, rtask, crashes, tmpDir, tmp, countKeys, wvars, ivars, others>>

\* the plan is built on a tmp_path that is absent, or that an earlier run
\* left with some stage markers in it
InitPlan ==
  /\ pipeline \in {"ncl", "mc"}
  /\ resume \in BOOLEAN
  /\ delLogs \in BOOLEAN
  /\ delShards = TRUE
  /\ IF pipeline = "ncl"
     THEN /\ nBuckets \in [ObjectPixels -> 0..MaxBuckets]
          /\ marginRows = [k \in PartitionPixels |-> 0]
     ELSE NoData
  /\ RunIdle /\ WaitIdle /\ PathsIdle
  /\ CacheIdle /\ NoFailures /\ MapIdle /\ NoWrites /\ BuilderIdle /\ VerifierIdle
  /\ ArgsIdle /\ CallsIdle /\ FitsIdle
  /\ \E left \in SUBSET {StageDoneFile(stage) : stage \in Stages} :
       tmp = left /\ tmpDir = (left # {})
  /\ countKeys = {} /\ raised = NoError /\ lastOp = <<"none", "none">>

NextPlan ==
  \/ gather_plan
  \/ \E stage \in {COUNTING_STAGE, MAPPING_STAGE, REDUCING_STAGE} :
       \/ \E key \in Keys : plan_key_done(stage, key)
       \/ plan_stage_done(stage)
  \/ plan_clean
  \/ plan_combine

SpecPlan == InitPlan /\ [][NextPlan]_vars

(* ------------------- wait_for_futures, stage waits -------------------- *)
Futures == DOMAIN fut

\* future.exception() of a failed future
FutureException(f) == [type |-> "TaskError", stage |-> "", count |-> f]

\* a submitted task ends: normally with its marker written, normally
\* without it (it never marked itself done), or in error
future_resolves(f) ==
  /\ wpc \in {"iterating", "raised"} /\ fut[f] = "pending"
  /\ \/ fut' = [fut EXCEPT ![f] = "finished"] /\ tmp' = tmp \cup {KeyMarker(wStage, f)}
     \/ fut' = [fut EXCEPT ![f] = "finished"] /\ tmp' = tmp
     \/ fut' = [fut EXCEPT ![f] = "error"] /\ tmp' = tmp
  /\ UNCHANGED <<argvars, runvars, tmpDir, countKeys, raised, lastOp,
                 wEntry, wStage, failFast, seen, someError, wpc, ivars, others>>

\* variant: fail_fast is ignored
wait_for_futures_next_NoFailFast(f) ==
  /\ wpc = "iterating" /\ fut[f] # "pending"
  /\ \A i \in 1..Len(seen) : seen[i] # f
  /\ seen' = Append(seen, f)
  /\ someError' = (someError \/ fut[f] = "error")
  /\ UNCHANGED <<argvars, runvars, tmpDir, tmp, countKeys, lastOp, raised, wpc,
                 wEntry, wStage, failFast, fut, ivars, others>>

\* wait_for_futures, one iteration of the loop over as_completed(futures)
wait_for_futures_next(f) ==
  /\ wpc = "iterating" /\ fut[f] # "pending"
  /\ \A i \in 1..Len(seen) : seen[i] # f
  /\ seen' = Append(seen, f)
  /\ IF fut[f] = "error"
     THEN /\ someError' = TRUE
          /\ IF failFast
             THEN raised' = FutureException(f) /\ wpc' = "raised"
             ELSE raised' = raised /\ wpc' = wpc
     ELSE UNCHANGED <<someError, raised, wpc>>
  /\ UNCHANGED <<argvars, runvars, tmpDir, tmp, countKeys, lastOp,
                 wEntry, wStage, failFast, fut, ivars, others>>

\* variant: the loop result is ignored
wait_for_futures_end_NoRaise ==
  /\ wpc = "iterating" /\ Len(seen) = Cardinality(Futures)
  /\ raised' = raised
  /\ wpc' = IF wEntry = "wait_for_futures" THEN "returned" ELSE "remaining"
  /\ UNCHANGED <<argvars, runvars, tmpDir, tmp, countKeys, lastOp,
                 wEntry, wStage, failFast, fut, seen, someError, ivars, others>>

\* wait_for_futures, after the loop
wait_for_futures_end ==
  /\ wpc = "iterating" /\ Len(seen) = Cardinality(Futures)
  /\ IF someError
     THEN raised' = SomeStagesFailed(wStage) /\ wpc' = "raised"
     ELSE raised' = raised /\ wpc' = IF wEntry = "wait_for_futures" THEN "returned" ELSE "remaining"
  /\ UNCHANGED <<argvars, runvars, tmpDir, tmp, countKeys, lastOp,
                 wEntry, wStage, failFast, fut, seen, someError, ivars, others>>

\* wait_for_mapping / wait_for_reducing / wait_for_counting, after
\* wait_for_futures returned
wait_for_stage_end ==
  /\ wpc = "remaining"
  /\ LET res == WaitOutcome(wStage, FALSE, Remaining(wStage, tmp))
     IN  IF res = NoError
         THEN /\ tmp' = touch_stage_done_file(tmp, wStage)
              /\ raised' = raised
              /\ wpc' = "returned"
         ELSE /\ tmp' = tmp
              /\ raised' = res
              /\ wpc' = "raised"
  /\ UNCHANGED <<argvars, runvars, tmpDir, countKeys, lastOp,
                 wEntry, wStage, failFast, fut, seen, someError, ivars, others>>

\* a call of wait_for_futures (any fail_fast) or of a stage wait (which
\* passes no fail_fast), for some futures, with some keys already marked
InitWait ==
  /\ wStage \in {COUNTING_STAGE, MAPPING_STAGE, REDUCING_STAGE}
  /\ pipeline = IF wStage = COUNTING_STAGE THEN "ncl" ELSE "mc"
  /\ wEntry \in {"wait_for_futures", "wait_for_stage"}
  /\ failFast \in (IF wEntry = "wait_for_futures" THEN BOOLEAN ELSE {FALSE})
  /\ \E submitted \in SUBSET StageKeys(wStage) : fut = [f \in submitted |-> "pending"]
  /\ seen = <<>> /\ someError = FALSE /\ wpc = "iterating"
  /\ resume = TRUE /\ delLogs = TRUE /\ delShards = TRUE
  /\ NoData /\ RunIdle
  /\ tmpDir = TRUE
  /\ \E marked \in SUBSET StageKeys(wStage) : tmp = {KeyMarker(wStage, k) : k \in marked}
  /\ countKeys = {} /\ raised = NoError /\ lastOp = <<"none", "none">>
  /\ PathsIdle
  /\ CacheIdle /\ NoFailures /\ MapIdle /\ NoWrites /\ BuilderIdle /\ VerifierIdle
  /\ ArgsIdle /\ CallsIdle /\ FitsIdle

NextWait ==
  \/ \E f \in Futures : future_resolves(f)
  \/ \E f \in Futures : wait_for_futures_next(f)
  \/ wait_for_futures_end
  \/ wait_for_stage_end

SpecWait == InitWait /\ [][NextWait]_vars


(* ------------------- check_original_input_paths ----------------------- *)
\* path strings, numbered in string order: "a" < "a " < "b"
PathA == 1
PathASpace == 2
PathB == 3
PathStrings == {PathA, PathASpace, PathB}

\* str.strip(): "a " becomes "a"
Strip(path) == IF path = PathASpace THEN PathA ELSE path

RECURSIVE InputLists(_)
\* lists of path strings of length at most n
InputLists(n) ==
  IF n = 0 THEN {<<>>}
  ELSE LET shorter == InputLists(n - 1)
       IN  shorter \cup {Append(q, x) : q \in {r \in shorter : Len(r) = n - 1}, x \in PathStrings}

\* input_paths as the function normalises it: set, str, sort
NormalizedInput(input_paths) == SortedSeq(SetOfSeq(input_paths))

\* original_input_paths: the lines of the log file, stripped, as a sorted
\* set; empty when the file is not found
ReadOriginalInputPaths(exists, lines) ==
  IF exists THEN SortedSeq({Strip(lines[i]) : i \in DOMAIN lines}) ELSE <<>>

\* the branch check_original_input_paths takes
CheckBranch(original, input) ==
  IF Len(original) = 0 THEN "write"
  ELSE IF original # input THEN "raise"
  ELSE "return"

check_original_input_paths(input_paths) ==
  /\ calls < MaxCalls
  /\ LET input == NormalizedInput(input_paths)
         original == ReadOriginalInputPaths(logExists, logLines)
         branch == CheckBranch(original, input)
     IN  /\ logExists' = (logExists \/ branch = "write")
         /\ logLines' = IF branch = "write" THEN input ELSE logLines
         /\ lastResult' = IF branch = "raise" THEN "raised" ELSE "returned"
  /\ calls' = calls + 1
  /\ firstInput' = IF calls = 0 THEN input_paths ELSE firstInput
  /\ lastInput' = input_paths
  /\ prevLog' = logLines
  /\ UNCHANGED <<pvars, wvars, others>>

InitPaths ==
  /\ pipeline = "ncl" /\ resume = TRUE /\ delLogs = TRUE /\ delShards = TRUE
  /\ NoData /\ RunIdle
  /\ tmpDir = TRUE /\ tmp = {} /\ countKeys = {} /\ raised = NoError /\ lastOp = <<"none", "none">>
  /\ WaitIdle /\ PathsIdle
  /\ CacheIdle /\ NoFailures /\ MapIdle /\ NoWrites /\ BuilderIdle /\ VerifierIdle
  /\ ArgsIdle /\ CallsIdle /\ FitsIdle

NextPaths == \E input_paths \in InputLists(MaxPaths) : check_original_input_paths(input_paths)

SpecPaths == InitPaths /\ [][NextPaths]_vars

NclTask ==
  \E p \in ObjectPixels :
    \/ _perform_nest_split(p)
    \/ _reduce_partitions_begin(p)
    \/ _reduce_partitions_write(p)
    \/ _write_partition_info(p)

NclRun ==
  \/ run_gather_plan
  \/ run_submit
  \/ wait_for_counting
  \/ run_combine
  \/ run_properties
  \/ run_clean

McTask ==
  \E k \in PartitionPixels :
    \/ map_pixel_shards(k)
    \/ mapping_key_done(k)
    \/ reduce_margin_shards(k)
    \/ reducing_key_done(k)

McRun ==
  \/ generate_plan
  \/ generate_submit_mapping
  \/ wait_for_mapping
  \/ generate_submit_reducing
  \/ wait_for_reducing
  \/ generate_metadata
  \/ generate_properties

Interrupt == ControllerCrash \/ \E k \in Keys : TaskCrash(k)

Next == NclTask \/ NclRun \/ McTask \/ McRun \/ Interrupt

Spec == Init /\ [][Next]_vars

\* every step of a task or of the controller that is not an interruption
Progress == NclTask \/ NclRun \/ McTask \/ McRun

\* a submitted task runs to completion and a stopped pipeline is
\* invoked again, unless interrupted (at most MaxCrashes times)
SpecFair == Spec /\ WF_vars(Progress)

(* ---------- margin cache: invocations with changing arguments ---------- *)
\* the margin_order and margin_threshold tried
MarginArguments == [margin_order : {1, 2}, margin_threshold : {5, 10}]

\* between two invocations the caller builds MarginCacheArguments anew with
\* another margin_order or margin_threshold, for the same output path and
\* so the same tmp_path, and with the same resume flag
MarginCacheArguments_changed(args) ==
  /\ pipeline = "mc" /\ Stopped /\ ctl # "init"
  /\ args # mcArgs
  /\ mcArgs' = args
  /\ UNCHANGED <<pvars, wvars, ivars, gvars, evars, mvars, hvars, cvars, vvars,
                 pairsOrder, mappedWith, lastCall, fvars>>

InitRerun ==
  /\ pipeline = "mc"
  /\ resume \in BOOLEAN
  /\ delLogs \in BOOLEAN
  /\ delShards \in BOOLEAN
  /\ nBuckets = [p \in ObjectPixels |-> 0]
  /\ marginRows \in [PartitionPixels -> 0..MaxMarginRows]
  /\ RunIdle /\ FsEmpty /\ WaitIdle /\ PathsIdle
  /\ CacheIdle /\ NoFailures /\ MapIdle /\ NoWrites /\ BuilderIdle /\ VerifierIdle
  /\ mcArgs \in MarginArguments
  /\ pairsOrder = Absent
  /\ mappedWith = [k \in PartitionPixels |-> NoArgs]
  /\ CallsIdle /\ FitsIdle

NextRerun ==
  \/ McTask
  \/ McRun
  \/ Interrupt
  \/ \E args \in MarginArguments : MarginCacheArguments_changed(args)

SpecRerun == InitRerun /\ [][NextRerun]_vars

(* ------------- sibling tasks of one stage, with failures -------------- *)
\* shard_suffix of the map_to_pixels tasks
ShardSuffixes == {"1", "1_0"}

MapPixels == 1..NumMapPixels

\* steps of _perform_nest at which an I/O failure may be due
FailureSteps == {"mapping", "splitting", "reducing", "finishing"}

\* pixel_math.empty_histogram
empty_histogram == [pixel \in MapPixels |-> 0]

\* _get_pixel_directory(cache_path, pixel), below cache_path
_get_pixel_directory(pixel) ==
  "dir_" \o ToString((pixel \div 10000) * 10000) \o "/pixel_" \o ToString(pixel)

\* variant: the shard file is named after the chunk only
shard_file_name_ChunkOnly(shard_suffix, chunk_number) ==
  "shard_" \o ToString(chunk_number) \o ".parquet"

\* f"shard_{shard_suffix}_{chunk_number}.parquet"
shard_file_name(shard_suffix, chunk_number) ==
  "shard_" \o shard_suffix \o "_" \o ToString(chunk_number) \o ".parquet"

\* output_file of map_to_pixels for a pixel of a chunk
output_file(pixel, shard_suffix, chunk_number) ==
  _get_pixel_directory(pixel) \o "/" \o shard_file_name(shard_suffix, chunk_number)

\* map_to_pixels, the checks on the provided path and the reader
map_to_pixels_begin(s) ==
  /\ pipeline = "import" /\ mapTask[s].pc = "start"
  /\ mapTask' = [mapTask EXCEPT ![s] =
       IF mapData[s].input = "missing" THEN [pc |-> "error", chunk |-> 0, exc |-> "FileNotFoundError"]
       ELSE IF mapData[s].input = "directory" THEN [pc |-> "error", chunk |-> 0, exc |-> "FileNotFoundError"]
       ELSE IF ~mapData[s].file_reader THEN [pc |-> "error", chunk |-> 0, exc |-> "NotImplementedError"]
       ELSE [pc |-> "reading", chunk |-> 0, exc |-> "none"]]
  /\ histo' = [histo EXCEPT ![s] = empty_histogram]
  /\ UNCHANGED <<pvars, wvars, ivars, gvars, evars, mapData, cacheFiles, hvars, xvars>>

\* map_to_pixels, one chunk of the reader: the columns are checked, the
\* rows are counted per pixel and, with a cache path, one shard file per
\* pixel of the chunk is written
map_to_pixels_chunk(s) ==
  /\ pipeline = "import" /\ mapTask[s].pc = "reading"
  /\ mapTask[s].chunk < mapData[s].chunks
  /\ \E columns_ok \in BOOLEAN, mapped_pixel \in SUBSET MapPixels :
       IF ~columns_ok
       THEN /\ mapTask' = [mapTask EXCEPT ![s].pc = "error", ![s].exc = "ValueError"]
            /\ UNCHANGED <<histo, cacheFiles, writes>>
       ELSE LET files == {output_file(pixel, s, mapTask[s].chunk) : pixel \in mapped_pixel}
            IN  /\ histo' = [histo EXCEPT ![s] =
                       [pixel \in MapPixels |->
                          IF pixel \in mapped_pixel THEN histo[s][pixel] + 1 ELSE histo[s][pixel]]]
                /\ IF mapData[s].cache_path
                   THEN cacheFiles' = cacheFiles \cup files /\ writes' = Written(s, files)
                   ELSE UNCHANGED <<cacheFiles, writes>>
                /\ mapTask' = [mapTask EXCEPT ![s].chunk = @ + 1]
  /\ UNCHANGED <<pvars, wvars, ivars, gvars, evars, mapData, xvars>>

\* map_to_pixels returns the histogram
map_to_pixels_return(s) ==
  /\ pipeline = "import" /\ mapTask[s].pc = "reading"
  /\ mapTask[s].chunk = mapData[s].chunks
  /\ mapTask' = [mapTask EXCEPT ![s].pc = "done"]
  /\ UNCHANGED <<pvars, wvars, ivars, gvars, evars, mapData, cacheFiles, histo, hvars, xvars>>

MapTask ==
  \E s \in ShardSuffixes :
    \/ map_to_pixels_begin(s)
    \/ map_to_pixels_chunk(s)
    \/ map_to_pixels_return(s)

\* object pixels whose task was submitted by this invocation
SubmittedPixels == {p \in ObjectPixels : task[p].pc # "none"}

\* an invocation of the nested light curve pipeline has just submitted the
\* tasks of one or two object pixels that lack their completion CSV (the
\* other pixels were completed by an earlier invocation), some of them with
\* an I/O failure ahead; or map_to_pixels tasks with distinct shard suffixes
\* were started on their input files
InitTasks ==
  /\ pipeline \in {"ncl", "import"}
  /\ resume = TRUE /\ delLogs = TRUE
  /\ marginRows = [k \in PartitionPixels |-> 0]
  /\ rtask = [k \in PartitionPixels |-> IdleTask]
  /\ catalog = {} /\ totalRows = 0 /\ crashes = 0
  /\ raised = NoError /\ lastOp = <<"none", "none">>
  /\ WaitIdle /\ PathsIdle /\ NoTaskFailed /\ NoWrites /\ BuilderIdle /\ VerifierIdle
  /\ ArgsIdle /\ CallsIdle /\ FitsIdle
  /\ IF pipeline = "ncl"
     THEN /\ delShards \in BOOLEAN
          /\ nBuckets \in [ObjectPixels -> 0..MaxBuckets]
          /\ \E pixels \in SUBSET ObjectPixels :
               /\ Cardinality(pixels) \in {1, 2}
               /\ countKeys = pixels
               /\ task = Submitted(pixels, "mapping")
               /\ tmp = {SOURCE_MAP_FILE} \cup {CsvFile(q) : q \in ObjectPixels \ pixels}
               /\ out = [b \in OutFiles |->
                           IF b[1] \notin pixels /\ b \in pixel_list(b[1])
                           THEN ExpectedRows(b) ELSE Absent]
               /\ failAt \in [ObjectPixels -> FailureSteps \cup {"none"}]
               /\ \A q \in ObjectPixels \ pixels : failAt[q] = "none"
          /\ tmpDir = TRUE /\ ctl = "counting"
          /\ objectMap = object_neighbor_map
          /\ mapFileContents = SavedMap(object_neighbor_map)
          /\ computed = FALSE
          /\ MapIdle
     ELSE /\ delShards = TRUE /\ NoData
          /\ task = [k \in Keys |-> IdleTask]
          /\ out = [b \in OutFiles |-> Absent]
          /\ tmpDir = FALSE /\ tmp = {} /\ countKeys = {} /\ ctl = "init"
          /\ CacheIdle
          /\ failAt = [p \in ObjectPixels |-> "none"]
          /\ \E cache_path \in BOOLEAN :
               mapData \in [ShardSuffixes ->
                             [input : {"file", "missing", "directory"}, file_reader : BOOLEAN,
                              chunks : 0..MaxChunks, cache_path : {cache_path}]]
          /\ mapTask = [s \in ShardSuffixes |-> [pc |-> "start", chunk |-> 0, exc |-> "none"]]
          /\ cacheFiles = {}
          /\ histo = [s \in ShardSuffixes |-> empty_histogram]

NextTasks == NclTask \/ wait_for_counting \/ MapTask

SpecTasks == InitTasks /\ [][NextTasks]_vars

(* ----------------------- CollectionArguments -------------------------- *)
\* the collection's own arguments; paths are sequences of components
OUTPUT_PATH == <<"out">>
OUTPUT_ARTIFACT_NAME == "coll"

\* RuntimeArguments.catalog_path: output_path / output_artifact_name
catalog_path(output_path, output_artifact_name) == Append(output_path, output_artifact_name)

\* dict.update: the entries of kwargs replace or extend those of the dict
Updated(dict, kwargs) ==
  [k \in DOMAIN dict \cup DOMAIN kwargs |-> IF k \in DOMAIN kwargs THEN kwargs[k] ELSE dict[k]]

\* _get_subarg_dict: the shared arguments every sub-catalog starts from
_get_subarg_dict ==
  [output_path |-> catalog_path(OUTPUT_PATH, OUTPUT_ARTIFACT_NAME),
   resume |-> "True", delete_resume_log_files |-> "True"]

\* a catalog that exists apart from the collection
EXISTING_CATALOG == <<"ext", "obj">>

\* keyword arguments the calls are tried with
CatalogOverrides ==
  {[input_path |-> "data"], [input_path |-> "missing"],
   [input_path |-> "data", output_artifact_name |-> "obj"],
   [input_path |-> "data", resume |-> "False"],
   [catalog_path |-> EXISTING_CATALOG],
   [catalog_path |-> EXISTING_CATALOG, input_path |-> "data"]}
MarginOverrides ==
  {[margin_threshold |-> "5.0"], [margin_threshold |-> "1000000"],
   [margin_threshold |-> "5.0", output_artifact_name |-> "m1",
    input_catalog_path |-> EXISTING_CATALOG, resume |-> "False"]}
IndexOverrides ==
  {[indexing_column |-> "id"], [indexing_column |-> "not_there"],
   [indexing_column |-> "id", output_artifact_name |-> "i1",
    input_catalog_path |-> EXISTING_CATALOG, resume |-> "False"]}

\* the configuration object of a pipeline, once validated: the keyword
\* arguments and the derived catalog_path
Validated(class, kwargs) ==
  Updated(kwargs, [class |-> class,
                   catalog_path |-> catalog_path(kwargs.output_path, kwargs.output_artifact_name)])

\* ImportArguments(**kwargs): the input must be given and exist
ImportArguments(kwargs) ==
  IF "input_path" \notin DOMAIN kwargs \/ kwargs.input_path = "missing"
  THEN [exc |-> "input_path", args |-> NoArgs]
  ELSE [exc |-> "none", args |-> Validated("ImportArguments", kwargs)]

\* MarginCacheArguments(**kwargs): the threshold must not imply too fine an order
MarginCacheArguments(kwargs) ==
  IF kwargs.margin_threshold = "1000000"
  THEN [exc |-> "higher order", args |-> NoArgs]
  ELSE [exc |-> "none", args |-> Validated("MarginCacheArguments", kwargs)]

\* IndexArguments(**kwargs): the columns must be in the input catalog
IndexArguments(kwargs) ==
  IF kwargs.indexing_column = "not_there"
  THEN [exc |-> "not in input catalog", args |-> NoArgs]
  ELSE [exc |-> "none", args |-> Validated("IndexArguments", kwargs)]

\* the list a get_..._args loop leaves and the exception it ends with, given
\* what constructing each stashed configuration gives: the objects are
\* appended one by one, up to the first that fails to validate
Constructed(results) ==
  LET bad == {i \in 1..Len(results) : results[i].exc # "none"}
      stop == IF bad = {} THEN Len(results) + 1 ELSE CHOOSE i \in bad : \A j \in bad : i <= j
  IN  [exc |-> IF bad = {} THEN "none" ELSE results[stop].exc,
       args |-> [i \in 1..(stop - 1) |-> results[i].args]]

\* the record of a call
Called(op, kwargs, exc) == [op |-> op, kwargs |-> kwargs, exc |-> exc]

\* the path catalog() looks for an existing catalog at
ProbedPath(kwargs, useful_kwargs) ==
  IF "catalog_path" \in DOMAIN kwargs
  THEN kwargs.catalog_path
  ELSE Append(Append(OUTPUT_PATH, OUTPUT_ARTIFACT_NAME), useful_kwargs.output_artifact_name)

\* useful_kwargs of catalog()
CatalogKwargs(kwargs) ==
  IF "output_artifact_name" \in DOMAIN kwargs
  THEN Updated(_get_subarg_dict, kwargs)
  ELSE Updated(Updated(_get_subarg_dict, kwargs), [output_artifact_name |-> OUTPUT_ARTIFACT_NAME])

\* variant: the shared defaults win over the call's keyword arguments
SubcatalogKwargs_DefaultsWin(kwargs, suffix) ==
  LET merged == Updated(kwargs, _get_subarg_dict)
      named == IF "output_artifact_name" \in DOMAIN kwargs THEN merged
               ELSE Updated(merged, [output_artifact_name |-> OUTPUT_ARTIFACT_NAME \o suffix])
  IN  IF "input_catalog_path" \in DOMAIN kwargs THEN named
      ELSE Updated(named, [input_catalog_path |-> newCatalogPath])

\* useful_kwargs of add_margin / add_index
SubcatalogKwargs(kwargs, suffix) ==
  LET merged == Updated(_get_subarg_dict, kwargs)
      named == IF "output_artifact_name" \in DOMAIN kwargs THEN merged
               ELSE Updated(merged, [output_artifact_name |-> OUTPUT_ARTIFACT_NAME \o suffix])
  IN  IF "input_catalog_path" \in DOMAIN kwargs THEN named
      ELSE Updated(named, [input_catalog_path |-> newCatalogPath])

\* variant: catalog() may be called again
catalog_called_Never == FALSE

\* the test catalog() opens with: the primary catalog is set
catalog_called == newCatalogPath # NoPath

\* variant: an import configuration is constructed also for an existing catalog
CollectionArguments_catalog_AlwaysImports(kwargs) ==
  /\ catalogCalls' = IF catalogCalls = 0 THEN 1 ELSE 2
  /\ IF catalog_called
     THEN /\ cLast' = Called("catalog", kwargs, "exactly once")
          /\ UNCHANGED <<newCatalogPath, catalogArgs>>
     ELSE LET a == ImportArguments(CatalogKwargs(kwargs))
          IN  IF a.exc # "none"
              THEN /\ cLast' = Called("catalog", kwargs, a.exc)
                   /\ UNCHANGED <<newCatalogPath, catalogArgs>>
              ELSE /\ cLast' = Called("catalog", kwargs, "none")
                   /\ catalogArgs' = a.args
                   /\ newCatalogPath' = a.args.catalog_path
  /\ UNCHANGED <<disk, marginKwargs, indexKwargs, marginArgs, indexArgs>>
  /\ UNCHANGED <<pvars, wvars, ivars, gvars, evars, mvars, hvars, vvars, yvars>>

\* CollectionArguments.catalog(**kwargs)
CollectionArguments_catalog(kwargs) ==
  /\ catalogCalls' = IF catalogCalls = 0 THEN 1 ELSE 2
  /\ IF catalog_called
     THEN /\ cLast' = Called("catalog", kwargs, "exactly once")
          /\ UNCHANGED <<newCatalogPath, catalogArgs>>
     ELSE IF ProbedPath(kwargs, CatalogKwargs(kwargs)) \in disk
     THEN /\ cLast' = Called("catalog", kwargs, "none")
          /\ newCatalogPath' = ProbedPath(kwargs, CatalogKwargs(kwargs))
          /\ catalogArgs' = catalogArgs
     ELSE LET a == ImportArguments(CatalogKwargs(kwargs))
          IN  IF a.exc # "none"
              THEN /\ cLast' = Called("catalog", kwargs, a.exc)
                   /\ UNCHANGED <<newCatalogPath, catalogArgs>>
              ELSE /\ cLast' = Called("catalog", kwargs, "none")
                   /\ catalogArgs' = a.args
                   /\ newCatalogPath' = a.args.catalog_path
  /\ UNCHANGED <<disk, marginKwargs, indexKwargs, marginArgs, indexArgs>>
  /\ UNCHANGED <<pvars, wvars, ivars, gvars, evars, mvars, hvars, vvars, yvars>>

\* variant: margins are accepted before the primary catalog is set
add_margin_NoGuard(kwargs) ==
  /\ Len(marginKwargs) + Len(indexKwargs) < MaxStash
  /\ cLast' = Called("add_margin", kwargs, "none")
  /\ marginKwargs' = Append(marginKwargs, SubcatalogKwargs(kwargs, "_margin"))
  /\ UNCHANGED <<disk, newCatalogPath, catalogArgs, indexKwargs, marginArgs, indexArgs, catalogCalls>>
  /\ UNCHANGED <<pvars, wvars, ivars, gvars, evars, mvars, hvars, vvars, yvars>>

\* CollectionArguments.add_margin(**kwargs)
add_margin(kwargs) ==
  /\ Len(marginKwargs) + Len(indexKwargs) < MaxStash
  /\ IF newCatalogPath = NoPath
     THEN /\ cLast' = Called("add_margin", kwargs, "add catalog arguments")
          /\ marginKwargs' = marginKwargs
     ELSE /\ cLast' = Called("add_margin", kwargs, "none")
          /\ marginKwargs' = Append(marginKwargs, SubcatalogKwargs(kwargs, "_margin"))
  /\ UNCHANGED <<disk, newCatalogPath, catalogArgs, indexKwargs, marginArgs, indexArgs, catalogCalls>>
  /\ UNCHANGED <<pvars, wvars, ivars, gvars, evars, mvars, hvars, vvars, yvars>>

\* CollectionArguments.get_margin_args()
get_margin_args ==
  /\ IF newCatalogPath = NoPath
     THEN /\ cLast' = Called("get_margin_args", <<>>, "add catalog arguments")
          /\ marginArgs' = marginArgs
     ELSE IF marginArgs # <<>>
     THEN /\ cLast' = Called("get_margin_args", <<>>, "none")
          /\ marginArgs' = marginArgs
     ELSE LET c == Constructed([i \in 1..Len(marginKwargs) |-> MarginCacheArguments(marginKwargs[i])])
          IN  /\ cLast' = Called("get_margin_args", <<>>, c.exc)
              /\ marginArgs' = c.args
  /\ UNCHANGED <<disk, newCatalogPath, catalogArgs, marginKwargs, indexKwargs, indexArgs, catalogCalls>>
  /\ UNCHANGED <<pvars, wvars, ivars, gvars, evars, mvars, hvars, vvars, yvars>>

\* variant: the index arguments are validated when they are added
add_index_Validating(kwargs) ==
  /\ Len(marginKwargs) + Len(indexKwargs) < MaxStash
  /\ IF newCatalogPath = NoPath
     THEN /\ cLast' = Called("add_index", kwargs, "add catalog arguments")
          /\ indexKwargs' = indexKwargs
     ELSE IF IndexArguments(SubcatalogKwargs(kwargs, "_index")).exc # "none"
     THEN /\ cLast' = Called("add_index", kwargs, IndexArguments(SubcatalogKwargs(kwargs, "_index")).exc)
          /\ indexKwargs' = indexKwargs
     ELSE /\ cLast' = Called("add_index", kwargs, "none")
          /\ indexKwargs' = Append(indexKwargs, SubcatalogKwargs(kwargs, "_index"))
  /\ UNCHANGED <<disk, newCatalogPath, catalogArgs, marginKwargs, marginArgs, indexArgs, catalogCalls>>
  /\ UNCHANGED <<pvars, wvars, ivars, gvars, evars, mvars, hvars, vvars, yvars>>

\* CollectionArguments.add_index(**kwargs)
add_index(kwargs) ==
  /\ Len(marginKwargs) + Len(indexKwargs) < MaxStash
  /\ IF newCatalogPath = NoPath
     THEN /\ cLast' = Called("add_index", kwargs, "add catalog arguments")
          /\ indexKwargs' = indexKwargs
     ELSE /\ cLast' = Called("add_index", kwargs, "none")
          /\ indexKwargs' = Append(indexKwargs, SubcatalogKwargs(kwargs, "_index"))
  /\ UNCHANGED <<disk, newCatalogPath, catalogArgs, marginKwargs, marginArgs, indexArgs, catalogCalls>>
  /\ UNCHANGED <<pvars, wvars, ivars, gvars, evars, mvars, hvars, vvars, yvars>>

\* CollectionArguments.get_index_args()
get_index_args ==
  /\ IF newCatalogPath = NoPath
     THEN /\ cLast' = Called("get_index_args", <<>>, "add catalog arguments")
          /\ indexArgs' = indexArgs
     ELSE IF indexArgs # <<>>
     THEN /\ cLast' = Called("get_index_args", <<>>, "none")
          /\ indexArgs' = indexArgs
     ELSE LET c == Constructed([i \in 1..Len(indexKwargs) |-> IndexArguments(indexKwargs[i])])
          IN  /\ cLast' = Called("get_index_args", <<>>, c.exc)
              /\ indexArgs' = c.args
  /\ UNCHANGED <<disk, newCatalogPath, catalogArgs, marginKwargs, indexKwargs, marginArgs, catalogCalls>>
  /\ UNCHANGED <<pvars, wvars, ivars, gvars, evars, mvars, hvars, vvars, yvars>>

\* no pipeline runs
PipelinesIdle ==
  /\ resume = TRUE /\ delLogs = TRUE /\ delShards = TRUE
  /\ NoData /\ RunIdle /\ FsEmpty /\ WaitIdle /\ PathsIdle
  /\ CacheIdle /\ NoFailures /\ MapIdle /\ NoWrites

\* a new builder; a valid catalog may exist at the external path, or at
\* one of the paths the collection would import its primary catalog to
InitCollection ==
  /\ pipeline = "collection"
  /\ PipelinesIdle /\ VerifierIdle /\ ArgsIdle /\ CallsIdle /\ FitsIdle
  /\ disk \in SUBSET {EXISTING_CATALOG,
                      <<"out", OUTPUT_ARTIFACT_NAME, OUTPUT_ARTIFACT_NAME>>,
                      <<"out", OUTPUT_ARTIFACT_NAME, "obj">>}
  /\ newCatalogPath = NoPath /\ catalogArgs = NoArgs
  /\ marginKwargs = <<>> /\ indexKwargs = <<>> /\ marginArgs = <<>> /\ indexArgs = <<>>
  /\ cLast = Called("none", <<>>, "none") /\ catalogCalls = 0

NextCollection ==
  \/ \E kwargs \in CatalogOverrides : CollectionArguments_catalog(kwargs)
  \/ \E kwargs \in MarginOverrides : add_margin(kwargs)
  \/ get_margin_args
  \/ \E kwargs \in IndexOverrides : add_index(kwargs)
  \/ get_index_args

SpecCollection == InitCollection /\ [][NextCollection]_vars

(* ----------------------------- Verifier -------------------------------- *)
\* args.input_dataset_path: input_catalog_path / "dataset"
INPUT_CATALOG_PATH == <<"catalog">>
input_dataset_path == Append(INPUT_CATALOG_PATH, "dataset")

\* truth_total_rows = None
NoTruth == -1

FileIds == 1..NumFiles

\* the path of a data file, as the datasets list it
FragPath(f) == input_dataset_path \o <<"Norder=0", "Dir=0", "Npix=" \o ToString(f) \o ".parquet">>

\* Path(file).relative_to(root)
relative_to(file, root) == SubSeq(file, Len(root) + 1, Len(file))

\* how the schemas of the catalog compare with the constructed truth schema
SchemaKinds == {"same", "pandas_columns", "metadata", "footer"}

\* the catalogs and arguments a verifier is made for: per file the row count
\* of its footer and the row count _metadata records, Absent when the file
\* is not there, respectively not referenced. A catalog that is not valid
\* has its schemas right, and one count is tried for a file that is only in
\* _metadata: that count is compared with nothing.
Datasets ==
  {d \in [valid : BOOLEAN,
          footer_rows : [FileIds -> {Absent} \cup 1..MaxFileRows],
          metadata_rows : [FileIds -> {Absent} \cup 1..MaxFileRows],
          schema : SchemaKinds,
          truth_total_rows : {NoTruth} \cup 1..MaxTruth] :
     /\ d.valid \/ d.schema = "same"
     /\ \A f \in FileIds : d.footer_rows[f] = Absent => d.metadata_rows[f] \in {Absent, 1}}

\* files_ds.files and metadata_ds.files
files_ds_files == {FragPath(f) : f \in {g \in FileIds : vData.footer_rows[g] # Absent}}
metadata_ds_files == {FragPath(f) : f \in {g \in FileIds : vData.metadata_rows[g] # Absent}}

\* _load_nrows: the frame of the number of rows per file, a row being the
\* relative path (the index) and the number
_load_nrows(rows) ==
  {<<relative_to(FragPath(f), input_dataset_path), rows[f]>> :
     f \in {g \in FileIds : rows[g] # Absent}}

\* the index of a frame
Index(df) == {row[1] : row \in df}

\* a Result; the clock value stands for the timestamp
Result(datetime, passed, test, target, bad_files) ==
  [datetime |-> datetime, passed |-> passed, test |-> test, target |-> target,
   bad_files |-> bad_files]

\* test_is_valid_catalog: the Result it appends
test_is_valid_catalog(datetime) ==
  <<Result(datetime, vData.valid, "valid hats", INPUT_CATALOG_PATH[Len(INPUT_CATALOG_PATH)], {})>>

\* the Result of test_file_sets, given the failed files
FileSetsResult(datetime, failed_files) ==
  <<Result(datetime, failed_files = {}, "file sets", "_metadata vs data files", failed_files)>>

\* variant: only the files missing from _metadata are reported
symmetric_difference_OneSided(a, b) == a \ b

\* set.symmetric_difference
symmetric_difference(a, b) == (a \ b) \cup (b \ a)

\* test_file_sets: the Result it appends
test_file_sets(datetime) ==
  FileSetsResult(datetime,
                 {relative_to(file, input_dataset_path) :
                    file \in symmetric_difference(files_ds_files, metadata_ds_files)})

\* the Results of test_num_rows, given the failed fragments and the sum of
\* the footer counts
NumRowsResults(datetime, failed_frags, total) ==
  <<Result(datetime, failed_frags = {}, "num rows", "file footers vs _metadata", failed_frags)>>
    \o (IF vData.truth_total_rows # NoTruth
        THEN <<Result(datetime, vData.truth_total_rows = total, "num rows",
                      "file footers vs truth", {})>>
        ELSE <<>>)

\* variant: only the files known to both footers and _metadata are compared
row_diff_nonzero_Inner(files_df, metadata_df) ==
  {p \in Index(files_df) \cap Index(metadata_df) :
     \E a \in files_df : \E b \in metadata_df : a[1] = p /\ b[1] = p /\ a[2] - b[2] # 0}

\* row_diff.loc[row_diff.num_rows != 0].index of row_diff = files_df -
\* metadata_df: the difference has a row for every file of either frame,
\* without a number where one of them has none
row_diff_nonzero(files_df, metadata_df) ==
  {p \in Index(files_df) \cup Index(metadata_df) :
     ~ \E a \in files_df : \E b \in metadata_df : a[1] = p /\ b[1] = p /\ a[2] - b[2] = 0}

\* files_df.num_rows.sum()
num_rows_sum(files_df) == SumOver(files_df, [row \in files_df |-> row[2]])

\* test_num_rows: the Results it appends
test_num_rows(datetime) ==
  NumRowsResults(datetime,
                 row_diff_nonzero(_load_nrows(vData.footer_rows), _load_nrows(vData.metadata_rows)),
                 num_rows_sum(_load_nrows(vData.footer_rows)))

\* schema.equals(constructed_truth_schema, check_metadata) for the schemas of
\* _common_metadata and of _metadata
aggregate_schema_equals(check_metadata) ==
  IF vData.schema = "metadata" THEN ~check_metadata ELSE TRUE

\* physical_schema.equals(constructed_truth_schema, check_metadata) for the
\* file footers
footer_schema_equals(check_metadata) ==
  CASE vData.schema = "metadata" -> ~check_metadata
    [] vData.schema = "footer" -> FALSE
    [] OTHER -> TRUE

\* the Results of test_schemas, given the files whose footer differs
SchemasResults(datetime, check_metadata, bad_files) ==
  <<Result(datetime, vData.schema # "pandas_columns", "schema consistency",
           "constructed_truth_schema", {}),
    Result(datetime, aggregate_schema_equals(check_metadata), "schema",
           "_common_metadata vs truth", {}),
    Result(datetime, aggregate_schema_equals(check_metadata), "schema",
           "_metadata vs truth", {}),
    Result(datetime, bad_files = {}, "schema", "file footers vs truth", bad_files)>>

\* test_schemas: the four Results it appends
test_schemas(datetime, check_metadata) ==
  SchemasResults(datetime, check_metadata,
                 IF footer_schema_equals(check_metadata) THEN {}
                 ELSE {relative_to(file, input_dataset_path) : file \in files_ds_files})

\* variant: the checks stop at the first that fails
run_tests_StopAtFailure(datetime, check_metadata) ==
  LET all == test_is_valid_catalog(datetime) \o test_file_sets(datetime)
               \o test_num_rows(datetime) \o test_schemas(datetime, check_metadata)
      failed == {i \in 1..Len(all) : ~all[i].passed}
  IN  IF failed = {} THEN all
      ELSE SubSeq(all, 1, CHOOSE i \in failed : \A j \in failed : i <= j)

\* the Results the four tests of Verifier.run append, in the order of the calls
run_tests(datetime, check_metadata) ==
  test_is_valid_catalog(datetime) \o test_file_sets(datetime)
    \o test_num_rows(datetime) \o test_schemas(datetime, check_metadata)

\* the lines of the report: the header, and one line per Result
HEADER == <<"header">>
Row(result) == <<"row", result>>
to_csv(results, header) ==
  (IF header THEN <<HEADER>> ELSE <<>>) \o [i \in 1..Len(results) |-> Row(results[i])]

\* write_results: the exception and the report file it leaves; a report of no
\* lines is a file that is not there
write_results(results, write_mode) ==
  LET is_file == report # <<>>
      header == ~(write_mode = "a" /\ is_file)
  IN  IF write_mode = "x" /\ is_file
      THEN [exc |-> "FileExistsError", report |-> report]
      ELSE [exc |-> "none",
            report |-> (IF write_mode = "a" THEN report ELSE <<>>) \o to_csv(results, header)]

\* the write modes tried: append, overwrite, exclusive creation
WriteModes == {"a", "w", "x"}

\* Verifier.run on a verifier that holds the given results
RunVerifier(results, fresh, write_mode, check_metadata) ==
  \E new \in {run_tests(vRuns + 1, check_metadata)} :
  \E written \in {write_results(results \o new, write_mode)} :
      /\ vRuns < MaxRuns
      /\ vRuns' = vRuns + 1
      /\ vResults' = results \o new
      /\ report' = written.report
      /\ vpc' = IF written.exc = "none" THEN "done" ELSE "raised"
      /\ vMode' = write_mode
      /\ vCheck' = check_metadata
      /\ runLog' = Append(runLog, [fresh |-> fresh, write_mode |-> write_mode,
                                   exc |-> written.exc])
      /\ UNCHANGED vData
      /\ UNCHANGED <<pvars, wvars, ivars, gvars, evars, mvars, hvars, cvars, yvars>>

\* run(args, check_metadata, write_mode): a new Verifier is made and run
verification_run(write_mode, check_metadata) ==
  /\ write_mode \in WriteModes
  /\ RunVerifier(<<>>, TRUE, write_mode, check_metadata)

\* Verifier.run(write_mode, check_metadata) on the Verifier of the last run
Verifier_run(write_mode, check_metadata) ==
  /\ vpc # "idle"
  /\ RunVerifier(vResults, FALSE, write_mode, check_metadata)

\* a catalog to verify; the report file is not there
InitVerify ==
  /\ pipeline = "verification"
  /\ PipelinesIdle /\ BuilderIdle /\ ArgsIdle /\ CallsIdle /\ FitsIdle
  /\ vData \in Datasets
  /\ vResults = <<>> /\ vpc = "idle" /\ vMode = "a" /\ vCheck = FALSE
  /\ report = <<>> /\ runLog = <<>> /\ vRuns = 0

NextVerify ==
  \/ \E write_mode \in WriteModes : \E check_metadata \in BOOLEAN :
       verification_run(write_mode, check_metadata)
  \/ \E write_mode \in WriteModes : \E check_metadata \in BOOLEAN :
       Verifier_run(write_mode, check_metadata)

SpecVerify == InitVerify /\ [][NextVerify]_vars

(* ----------------------------- FitsReader ------------------------------ *)
\* table[i_start : i_start + chunksize]: a slice ends with the table
table_chunk(table, i_start, size) ==
  SubSeq(table, i_start + 1, IF i_start + size < Len(table) THEN i_start + size ELSE Len(table))

\* variant: only whole chunks are yielded
range_continues_WholeChunks(i_start, stop, step) == i_start + step <= stop

\* range(0, len(table), chunksize) has a next value i_start
range_continues(i_start, stop, step) == i_start < stop

\* reader.read(input_file): the generator object; nothing of the body runs
\* before the first next(). The chunks of an exhausted earlier read are kept.
FitsReader_read ==
  /\ pipeline = "fits"
  /\ fitsGen.pc \in {"none", "exhausted"}
  /\ Len(fitsReads) + 1 < MaxReads \/ fitsGen.pc = "none"
  /\ fitsGen' = [pc |-> "created", i_start |-> 0, table |-> <<>>, open |-> FALSE]
  /\ fitsReads' = IF fitsGen.pc = "exhausted" THEN Append(fitsReads, fitsChunks) ELSE fitsReads
  /\ fitsChunks' = <<>>
  /\ UNCHANGED <<fitsTable, chunksize>>
  /\ UNCHANGED <<pvars, wvars, ivars, gvars, evars, mvars, hvars, cvars, vvars, avars, lastCall>>

\* next() on the generator: the first one opens the file and reads the
\* table; each one yields the next chunk, or leaves the with block (the
\* file is closed) when the range is exhausted
FitsReader_next ==
  /\ pipeline = "fits"
  /\ fitsGen.pc \in {"created", "suspended"}
  /\ LET table == IF fitsGen.pc = "created" THEN fitsTable ELSE fitsGen.table
     IN  IF range_continues(fitsGen.i_start, Len(table), chunksize)
         THEN /\ fitsChunks' = Append(fitsChunks, table_chunk(table, fitsGen.i_start, chunksize))
              /\ fitsGen' = [pc |-> "suspended", i_start |-> fitsGen.i_start + chunksize,
                             table |-> table, open |-> TRUE]
         ELSE /\ fitsChunks' = fitsChunks
              /\ fitsGen' = [pc |-> "exhausted", i_start |-> fitsGen.i_start,
                             table |-> <<>>, open |-> FALSE]
  /\ UNCHANGED <<fitsTable, chunksize, fitsReads>>
  /\ UNCHANGED <<pvars, wvars, ivars, gvars, evars, mvars, hvars, cvars, vvars, avars, lastCall>>

\* a FITS file with a table of some rows and a reader with some chunksize
InitFits ==
  /\ pipeline = "fits"
  /\ PipelinesIdle /\ BuilderIdle /\ VerifierIdle /\ ArgsIdle /\ CallsIdle
  /\ \E n \in 0..MaxTableRows : fitsTable = [i \in 1..n |-> i]
  /\ chunksize \in 1..MaxChunkSize
  /\ fitsGen = [pc |-> "none", i_start |-> 0, table |-> <<>>, open |-> FALSE]
  /\ fitsChunks = <<>> /\ fitsReads = <<>>

NextFits == FitsReader_read \/ FitsReader_next

SpecFits == InitFits /\ [][NextFits]_vars

(* ------------------------- library functions -------------------------- *)
\* a call returns or raises: nothing changes but the record of the call,
\* which now holds the outcome
Returns(outcome) ==
  /\ pipeline = "calls"
  /\ ~lastCall.returned
  /\ lastCall' = outcome @@ [lastCall EXCEPT !.returned = TRUE]
  /\ UNCHANGED <<pvars, wvars, ivars, gvars, evars, mvars, hvars, cvars, vvars, avars, fvars>>

\* Python values: an int or a str
PyInt(n) == <<"int", n>>
PyStr(s) == <<"str", s>>
is_int(v) == v[1] = "int"

\* variant: orders up to 30 are let through
check_healpix_order_range_Upto30(value, field_name, lower_bound, upper_bound) ==
  IF ~(is_int(value) /\ is_int(lower_bound) /\ is_int(upper_bound))
  THEN "TypeError: not supported"
  ELSE IF ~(lower_bound[2] <= value[2] /\ value[2] <= upper_bound[2])
  THEN "ValueError: " \o field_name
  ELSE IF lower_bound[2] < 0 THEN "ValueError: positive"
  ELSE IF upper_bound[2] > 30 THEN "ValueError: 29"
  ELSE "none"

\* check_healpix_order_range: the exception it raises ("none": it returns)
check_healpix_order_range(value, field_name, lower_bound, upper_bound) ==
  IF ~(is_int(value) /\ is_int(lower_bound) /\ is_int(upper_bound))
  THEN "TypeError: not supported"
  ELSE IF ~(lower_bound[2] <= value[2] /\ value[2] <= upper_bound[2])
  THEN "ValueError: " \o field_name
  ELSE IF lower_bound[2] < 0 THEN "ValueError: positive"
  ELSE IF upper_bound[2] > 29 THEN "ValueError: 29"
  ELSE "none"

\* the values, bounds and field names tried
OrderValues == {PyInt(n) : n \in {-1, 0, 5, 19, 20, 29, 30}} \cup {PyStr("two")}
LowerBounds == {PyInt(-1), PyInt(0), PyInt(6), PyStr("one")}
UpperBounds == {PyInt(4), PyInt(19), PyInt(29), PyInt(30), PyStr("ten")}
FieldNames == {"order_field", "highest_healpix_order"}

HealpixOrderCalls ==
  [op : {"check_healpix_order_range"}, returned : {FALSE}, value : OrderValues,
   field_name : FieldNames, lower_bound : LowerBounds, upper_bound : UpperBounds]

call_check_healpix_order_range ==
  /\ lastCall.op = "check_healpix_order_range"
  /\ Returns([exc |-> check_healpix_order_range(lastCall.value, lastCall.field_name,
                                                lastCall.lower_bound, lastCall.upper_bound)])

\* source_nested_columns as given: None, one name, or a list of names
NoColumns == <<"none">>
OneColumn(name) == <<"str", name>>
ColumnList(names) == <<"list", names>>

\* set(source_nested_columns) for a list, set([source_nested_columns]) for
\* a single name; None stays None
nested_columns_set(source_nested_columns) ==
  IF source_nested_columns[1] = "list"
  THEN {source_nested_columns[2][i] : i \in 1..Len(source_nested_columns[2])}
  ELSE {source_nested_columns[2]}

\* `a if a is not None else set() | set([id])`: the union belongs to the
\* else branch
source_columns(source_nested_columns, source_object_id_column) ==
  IF source_nested_columns # NoColumns
  THEN nested_columns_set(source_nested_columns)
  ELSE {} \cup {source_object_id_column}

\* _check_arguments, the check of the source columns: the exception it
\* raises and the names the message lists
_check_arguments_source_columns(source_nested_columns, source_object_id_column, names) ==
  LET columns == source_columns(source_nested_columns, source_object_id_column)
      missing_columns == columns \ names
  IN  IF columns # {} /\ missing_columns # {}
      THEN [type |-> "ValueError", missing |-> missing_columns]
      ELSE [type |-> "none", missing |-> {}]

\* source_catalog.schema.names, and the column names tried
SourceSchemaNames == {"object_id", "mjd", "mag"}
ColumnNames == {"object_id", "mjd", "no_good", "not_in_source"}
NestedColumns ==
  {NoColumns} \cup {OneColumn(c) : c \in ColumnNames}
    \cup {ColumnList(l) : l \in UNION {[1..n -> ColumnNames] : n \in 0..2}}

NestLightCurveCalls ==
  [op : {"NestLightCurveArguments"}, returned : {FALSE},
   source_nested_columns : NestedColumns, source_object_id_column : {"object_id", "no_good"}]

call_NestLightCurveArguments ==
  /\ lastCall.op = "NestLightCurveArguments"
  /\ Returns([exc |-> _check_arguments_source_columns(
                        lastCall.source_nested_columns, lastCall.source_object_id_column,
                        SourceSchemaNames)])

\* variant: the loop never breaks
no_sources_remain_Never(remaining_sources) == FALSE

\* `if remaining_sources < 1: break`
no_sources_remain(remaining_sources) == remaining_sources < 1

\* the loop of count_joins over objects_to_join: it breaks when no source
\* remains, else it joins the candidate (_count_joins_for_object gives the
\* number of matched rows), appends its row and subtracts the matches
RECURSIVE join_loop(_, _, _)
join_loop(objects_to_join, remaining_sources, results) ==
  IF objects_to_join = <<>> \/ no_sources_remain(remaining_sources)
  THEN [remaining_sources |-> remaining_sources, results |-> results]
  ELSE LET object_pixel == Head(objects_to_join)
           join_count == object_pixel.matches
       IN  join_loop(Tail(objects_to_join), remaining_sources - join_count,
                     Append(results, <<object_pixel.order, object_pixel.pixel, join_count>>))

\* _write_count_results: int() of the join_Norder column raises TypeError
\* unless the frame has exactly one row; else the rows go to the CSV file
_write_count_results(results) ==
  IF Len(results) = 1
  THEN [exc |-> "none", csv |-> <<results>>]
  ELSE [exc |-> "TypeError", csv |-> <<>>]

\* count_joins: the results it builds, the exception of the call and the
\* CSV file it leaves (<<>>: none)
count_joins(num_sources, object_order_pixels, object_neighbors) ==
  LET loop == join_loop(object_order_pixels \o object_neighbors, num_sources, <<>>)
      results == IF loop.remaining_sources > 0
                 THEN Append(loop.results, <<-1, -1, loop.remaining_sources>>)
                 ELSE loop.results
      written == _write_count_results(results)
  IN  [results |-> results, exc |-> written.exc, csv |-> written.csv]

\* candidate object pixels: the aligned ones are pixels 1, 2, ... and the
\* neighbours 11, 12, ... of order 1, each with the rows it matches
CandidateLists ==
  UNION {[1..n -> [order : {1}, pixel : {0}, matches : 0..MaxMatches]] : n \in 0..MaxCandidates}

Numbered(candidates, first) ==
  [i \in 1..Len(candidates) |-> [candidates[i] EXCEPT !.pixel = first + i]]

CountJoinsCalls ==
  {[op |-> "count_joins", returned |-> FALSE, num_sources |-> n,
    object_order_pixels |-> Numbered(a, 0), object_neighbors |-> Numbered(b, 10)] :
     n \in 0..MaxSourceRows, a \in CandidateLists, b \in CandidateLists}

call_count_joins ==
  /\ lastCall.op = "count_joins"
  /\ Returns(count_joins(lastCall.num_sources, lastCall.object_order_pixels,
                         lastCall.object_neighbors))

\* the buckets of one object pixel, and calls of _check_destination_file on
\* one of them: what the destination file holds, the expected rows, the
\* shard directories below tmp_path
BucketsTried == {b \in AllBuckets : b[1] = 1}

CheckDestinationCalls ==
  [op : {"_check_destination_file"}, returned : {FALSE},
   contents : {Absent, Partial} \cup (1..MaxBuckets), bucket : BucketsTried,
   delete_input_files : BOOLEAN, files : SUBSET {ShardDir(b) : b \in BucketsTried}]

call__check_destination_file ==
  /\ lastCall.op = "_check_destination_file"
  /\ Returns([after |-> _check_destination_file(lastCall.contents, ExpectedRows(lastCall.bucket),
                          lastCall.bucket, lastCall.delete_input_files, lastCall.files)])

\* reduce_pixel_shards of the catalog import: the rows of the shards of
\* each origin pixel directory are merged; a wrong total raises before
\* anything is written; else the destination file is written and, if asked,
\* the directories are removed. Gives the exception, the rows of the
\* destination file (Absent: not written) and the directories left.
reduce_pixel_shards(shard_rows, destination_pixel_size, delete_input_files) ==
  LET rows_written == SumOver(DOMAIN shard_rows, shard_rows)
  IN  IF rows_written # destination_pixel_size
      THEN [exc |-> "ValueError", destination_file |-> Absent, pixel_dirs |-> DOMAIN shard_rows]
      ELSE [exc |-> "none", destination_file |-> rows_written,
            pixel_dirs |-> IF delete_input_files THEN {} ELSE DOMAIN shard_rows]

\* origin pixels 1..n with the rows of their shards, the expected size
ReducePixelShardsCalls ==
  [op : {"reduce_pixel_shards"}, returned : {FALSE},
   shard_rows : UNION {[1..n -> 0..MaxMatches] : n \in 1..MaxCandidates},
   destination_pixel_size : 1..MaxSourceRows, delete_input_files : BOOLEAN]

call_reduce_pixel_shards ==
  /\ lastCall.op = "reduce_pixel_shards"
  /\ Returns([after |-> reduce_pixel_shards(lastCall.shard_rows, lastCall.destination_pixel_size,
                                            lastCall.delete_input_files)])

\* a pyarrow schema: its fields <<name, type>> in order, and its metadata
SPATIAL_INDEX_COLUMN == "_healpix_29"

names(schema) == {schema.fields[i][1] : i \in 1..Len(schema.fields)}

\* schema.field(name): the field of that name
field(schema, name) ==
  schema.fields[CHOOSE i \in 1..Len(schema.fields) : schema.fields[i][1] = name]

\* schema.equals(other, check_metadata=...)
schema_equals(schema, other, check_metadata) ==
  /\ schema.fields = other.fields
  /\ check_metadata => schema.metadata = other.metadata

\* _construct_truth_schema: the spatial index field first if the common
\* schema has one, then the fields of the truth schema (of the common
\* schema when no truth schema is given, or an empty one) that are not hats
\* columns, then Norder, Dir and Npix as the common schema has them; of
\* the metadata only the key pandas, from the common schema
_construct_truth_schema(input_truth_schema, common_metadata_schema) ==
  LET partition_cols == <<"Norder", "Dir", "Npix">>
      hats_partition_fields ==
        [i \in 1..3 |-> field(common_metadata_schema, partition_cols[i])]
      has_idx == SPATIAL_INDEX_COLUMN \in names(common_metadata_schema)
      hats_cols == {"Norder", "Dir", "Npix"} \cup (IF has_idx THEN {SPATIAL_INDEX_COLUMN} ELSE {})
      hats_idx_fields ==
        IF has_idx THEN <<field(common_metadata_schema, SPATIAL_INDEX_COLUMN)>> ELSE <<>>
      _input_truth_schema ==
        IF input_truth_schema.given /\ Len(input_truth_schema.fields) > 0
        THEN input_truth_schema ELSE common_metadata_schema
      NotHats(fld) == fld[1] \notin hats_cols
      input_truth_fields == SelectSeq(_input_truth_schema.fields, NotHats)
  IN  [fields |-> hats_idx_fields \o input_truth_fields \o hats_partition_fields,
       metadata |-> [k \in {"pandas"} |-> common_metadata_schema.metadata[k]]]

\* _test_schema__common_metadata on a Verifier made by from_args: the
\* constructed truth schema and whether the test passed
_test_schema__common_metadata(input_truth_schema, common_metadata_schema, check_metadata) ==
  LET constructed_truth_schema ==
        _construct_truth_schema(input_truth_schema, common_metadata_schema)
  IN  [constructed |-> constructed_truth_schema,
       passed |-> schema_equals(common_metadata_schema, constructed_truth_schema, check_metadata)]

\* the orders the columns of a set can come in
Orderings(S) ==
  {f \in [1..Cardinality(S) -> S] : \A i, j \in 1..Cardinality(S) : i # j => f[i] # f[j]}

\* _common_metadata of a catalog: the columns ra, Norder, Dir, Npix and
\* possibly the spatial index, in some order, with the pandas metadata and
\* possibly another key
CommonSchemas ==
  {[fields |-> [i \in 1..Len(cols) |-> <<cols[i], "double">>], metadata |-> md] :
     cols \in Orderings({"ra", "Norder", "Dir", "Npix"})
               \cup Orderings({SPATIAL_INDEX_COLUMN, "ra", "Norder", "Dir", "Npix"}),
     md \in {[k \in {"pandas"} |-> "p"], [k \in {"pandas", "hats"} |-> "p"]}}

\* the truth schema of the user: none, or one with the data column, of the
\* same or of another type, with or without a partition column
TruthSchemas ==
  {[given |-> FALSE, fields |-> <<>>],
   [given |-> TRUE, fields |-> <<(<<"ra", "double">>)>>],
   [given |-> TRUE, fields |-> <<(<<"Norder", "double">>), (<<"ra", "float">>)>>]}

TestSchemaCalls ==
  [op : {"_test_schema__common_metadata"}, returned : {FALSE},
   input_truth_schema : TruthSchemas, common_metadata_schema : CommonSchemas,
   check_metadata : BOOLEAN]

call__test_schema__common_metadata ==
  /\ lastCall.op = "_test_schema__common_metadata"
  /\ Returns(_test_schema__common_metadata(lastCall.input_truth_schema,
                lastCall.common_metadata_schema, lastCall.check_metadata))

InitCalls ==
  /\ pipeline = "calls"
  /\ PipelinesIdle /\ BuilderIdle /\ VerifierIdle /\ ArgsIdle /\ FitsIdle
  /\ lastCall \in HealpixOrderCalls \cup NestLightCurveCalls \cup CountJoinsCalls
                  \cup CheckDestinationCalls \cup ReducePixelShardsCalls
                  \cup TestSchemaCalls

NextCalls ==
  \/ call_check_healpix_order_range
  \/ call_NestLightCurveArguments
  \/ call_count_joins
  \/ call__check_destination_file
  \/ call_reduce_pixel_shards
  \/ call__test_schema__common_metadata

SpecCalls == InitCalls /\ [][NextCalls]_vars

(* ============================== claims ================================ *)

\* C1: nested light curves, crash recovery: whatever interruptions of run()
\* or of a _perform_nest task occurred, re-invoking run() with resume enabled
\* and the same arguments, every submitted task running to completion,
\* eventually finishes successfully.
C1_ResumedRunEventuallySucceeds ==
  (pipeline = "ncl" /\ resume) => <>(ctl = "success")

\* C2: when _reduce_partitions returns without raising, every bucket of its
\* pixel list has an output file holding exactly the expected row count.
C2_ReduceWritesEveryBucket ==
  \A p \in ObjectPixels :
    (pipeline = "ncl" /\ non_empty_sources(p) /\ task[p].pc = "finishing")
      => \A b \in pixel_list(p) : out[b] = ExpectedRows(b)

\* futures of the modelled wait call that ended in error
FailedFutures == {f \in Futures : fut[f] = "error"}

\* C3: a stage wait (wait_for_mapping / wait_for_reducing / wait_for_counting)
\* creates the stage marker only if every future resolved without error and
\* the re-read work list is empty; when no future failed and a key still lacks
\* its marker it raises RuntimeError with the number of missing keys; whenever
\* it raises, the stage marker is not created.
C3_StageMarkerOnlyWhenComplete ==
  wEntry = "wait_for_stage" =>
    /\ StageDoneFile(wStage) \in tmp =>
         /\ wpc = "returned"
         /\ \A f \in Futures : fut[f] = "finished"
         /\ \A k \in StageKeys(wStage) : KeyMarker(wStage, k) \in tmp
    /\ wpc = "returned" => StageDoneFile(wStage) \in tmp
    /\ wpc = "raised" =>
         /\ StageDoneFile(wStage) \notin tmp
         /\ raised.type = "RuntimeError"
         /\ FailedFutures = {} =>
              /\ raised.stage = wStage
              /\ raised.count = Cardinality({k \in StageKeys(wStage) : KeyMarker(wStage, k) \notin tmp})
              /\ raised.count > 0

\* silent non-completion: every future finished without error, a key has no
\* marker, the wait raised
C3_Witness ==
  /\ wEntry = "wait_for_stage" /\ wpc = "raised"
  /\ Futures # {} /\ \A f \in Futures : fut[f] = "finished"
  /\ \E k \in Futures : KeyMarker(wStage, k) \notin tmp
  /\ raised.count = 1

\* C4: margin cache: reducing tasks are outstanding only while the mapping
\* stage marker exists, the finishing phase runs only while the reducing stage
\* marker exists, and mapping and reducing tasks are never outstanding together.
C4_StagesRunInOrder ==
  pipeline = "mc" =>
    /\ ctl = "reducing" => StageDoneFile(MAPPING_STAGE) \in tmp
    /\ \A d \in PartitionPixels : Running(rtask[d]) => StageDoneFile(MAPPING_STAGE) \in tmp
    /\ ctl \in {"finishing", "properties"} =>
         StageDoneFile(MAPPING_STAGE) \in tmp /\ StageDoneFile(REDUCING_STAGE) \in tmp
    /\ ~(\E k \in PartitionPixels : Running(task[k]) /\ \E d \in PartitionPixels : Running(rtask[d]))

\* a reducing task is outstanding after wait_for_mapping wrote the marker
C4_Witness ==
  /\ pipeline = "mc" /\ ctl = "reducing"
  /\ \E d \in PartitionPixels : Running(rtask[d])
  /\ \A k \in PartitionPixels : task[k].pc = "done"
  /\ StageDoneFile(MAPPING_STAGE) \in tmp

\* C5: at the point where an invocation submits the tasks of a stage, the keys
\* that get a task are exactly the expected keys without a completion marker,
\* none when the stage marker exists; tasks are started nowhere else.
C5_SubmitsExactlyUnmarkedKeys ==
  [][ /\ (pipeline = "ncl" /\ ctl = "planned" /\ ctl' \in {"counting", "finishing"}) =>
           {p \in ObjectPixels : task'[p].pc # "none"} =
             IF StageDoneFile(COUNTING_STAGE) \in tmp THEN {}
             ELSE {p \in ObjectPixels : CsvFile(p) \notin tmp}
      /\ (pipeline = "mc" /\ ctl = "planned" /\ ctl' \in {"mapping", "binning"}) =>
           {k \in PartitionPixels : task'[k].pc # "none"} =
             IF StageDoneFile(MAPPING_STAGE) \in tmp THEN {}
             ELSE {k \in PartitionPixels : KeyDoneFile(MAPPING_STAGE, k) \notin tmp}
      /\ (pipeline = "mc" /\ ctl = "binning" /\ ctl' \in {"reducing", "finishing"}) =>
           {k \in PartitionPixels : rtask'[k].pc # "none"} =
             IF StageDoneFile(REDUCING_STAGE) \in tmp THEN {}
             ELSE {k \in PartitionPixels : KeyDoneFile(REDUCING_STAGE, k) \notin tmp}
      /\ \A k \in Keys : (task[k].pc = "none" /\ task'[k].pc # "none") => ctl = "planned"
      /\ \A k \in PartitionPixels : (rtask[k].pc = "none" /\ rtask'[k].pc # "none") => ctl = "binning"
    ]_vars

\* a re-invocation after an interruption: one object pixel has its CSV and
\* gets no task, another lacks it and gets one
C5_Witness ==
  /\ pipeline = "ncl" /\ crashes > 0 /\ ctl = "counting"
  /\ \E p \in ObjectPixels : CsvFile(p) \in tmp /\ task[p].pc = "none"
  /\ \E q \in ObjectPixels : CsvFile(q) \notin tmp /\ task[q].pc = "mapping"

\* the step is a (re-)gathering of the plan
GatherStep == lastOp'[2] = "gather"

\* the operation before the step was the plan's cleanup
AfterCleanup == lastOp[2] \in {"clean", "clean_complete"}

\* keys of a stage whose completion marker is in a set of files
Marked(stage, files) == {k \in StageKeys(stage) : KeyMarker(stage, k) \in files}

\* C6 (as stated): with resume enabled, once every key of a stage has its
\* marker, re-gathering reports no remaining work; after clean_resume_files,
\* re-gathering reports the full work list again.
C6_CleanupRestoresFullList ==
  [][ (GatherStep /\ resume) =>
        \A stage \in Stages :
          /\ (~AfterCleanup /\ Marked(stage, tmp) = StageKeys(stage) /\ raised' = NoError)
                => PlanRemaining(stage)' = {}
          /\ AfterCleanup => PlanRemaining(stage)' = StageKeys(stage)
    ]_vars

\* C6 (amended): while markers are kept (resume enabled, or
\* delete_resume_log_files false), a stage whose keys all have their marker is
\* re-gathered with no remaining work; after clean_resume_files with
\* delete_resume_log_files true, re-gathering reports the full work list;
\* with delete_resume_log_files false the cleanup deletes nothing and
\* re-gathering reports the keys that were unmarked before it.
C6_CleanupRestoresFullListIfDeleting ==
  [][ /\ GatherStep =>
           \A stage \in Stages :
             /\ ((resume \/ ~plan_delete_resume_log_files) /\ Marked(stage, tmp) = StageKeys(stage) /\ raised' = NoError)
                   => PlanRemaining(stage)' = {}
             /\ (AfterCleanup /\ plan_delete_resume_log_files) => PlanRemaining(stage)' = StageKeys(stage)
             /\ (AfterCleanup /\ ~plan_delete_resume_log_files /\ raised' = NoError)
                   => PlanRemaining(stage)' = StageKeys(stage) \ Marked(stage, tmp)
      /\ (lastOp'[2] \in {"clean", "clean_complete"} /\ ~plan_delete_resume_log_files) => (tmp' = tmp /\ tmpDir' = tmpDir)
    ]_vars

\* every key of a stage was marked, the plan was cleaned with
\* delete_resume_log_files true and gathered again: the full list is back
C6_Witness ==
  /\ lastOp = <<"clean_complete", "gather">> /\ delLogs /\ resume
  /\ \A stage \in Stages : PlanRemaining(stage) = StageKeys(stage)

\* C7: safe_to_resume on a tmp_path with contents: with resume false no stage
\* or key completed earlier is reported done afterwards; with resume true the
\* contents are kept; tmp_path exists afterwards.
C7_NoResumeForgetsOldProgress ==
  [][ (GatherStep /\ directory_has_contents(tmpDir, tmp)) =>
        /\ tmpDir'
        /\ resume => tmp \subseteq tmp'
        /\ ~resume => \A stage \in Stages :
                        /\ StageDoneFile(stage) \notin tmp'
                        /\ Marked(stage, tmp') = {}
    ]_vars

\* C8: the first call records the supplied set; every later call raises iff
\* the supplied set differs from the recorded one, and a call that raises
\* leaves the record unchanged.
C8_LaterCallsCompareWithRecorded ==
  /\ calls = 1 =>
       /\ lastResult = "returned" /\ logExists
       /\ SetOfSeq(logLines) = SetOfSeq(firstInput)
  /\ calls >= 2 =>
       (lastResult = "raised" <=> SetOfSeq(lastInput) # SetOfSeq(firstInput))
  /\ lastResult = "raised" => logLines = prevLog

C10_FailFastRaisesFirstError ==
  /\ [](wpc = "raised" =>
          IF failFast
          THEN /\ Len(seen) > 0
               /\ raised = FutureException(seen[Len(seen)])
               /\ \A i \in 1..Len(seen) : fut[seen[i]] = "error" <=> i = Len(seen)
          ELSE /\ Len(seen) = Cardinality(Futures)
               /\ raised.type = "RuntimeError")
  /\ [][wpc = "raised" => (seen' = seen /\ raised' = raised /\ wpc' = wpc)]_vars

\* the first failed future was raised while another future had not completed
C10_Witness ==
  /\ failFast /\ wpc = "raised"
  /\ \E f \in Futures : fut[f] = "pending"

\* C11: a stage is reported done iff <stage>_done exists directly under
\* tmp_path, a key is reported done iff <stage>/<key>_done exists; touching a
\* marker that exists changes nothing, and touching a marker changes the done
\* status of no other stage or key.
C11_DoneStatusIsMarkerExistence ==
  /\ [](\A stage \in {COUNTING_STAGE, MAPPING_STAGE, REDUCING_STAGE} :
          /\ done_file_exists(tmp, stage) <=> <<"stage_done", stage, 0, 0>> \in tmp
          /\ \A k \in Keys : k \in read_done_keys(tmp, stage) <=> <<"key_done", stage, k, 0>> \in tmp)
  /\ [][ \A stage \in {COUNTING_STAGE, MAPPING_STAGE, REDUCING_STAGE} :
           /\ lastOp'[2] = "key_done" =>
                /\ done_file_exists(tmp', stage) <=> done_file_exists(tmp, stage)
                /\ read_done_keys(tmp, stage) \subseteq read_done_keys(tmp', stage)
                /\ \E s2 \in Stages, k \in Keys :
                     /\ tmp' = tmp \cup {KeyMarker(s2, k)}
                     /\ \A s3 \in Stages : s3 # s2 => read_done_keys(tmp', s3) = read_done_keys(tmp, s3)
           /\ lastOp'[2] = "stage_done" =>
                /\ read_done_keys(tmp', stage) = read_done_keys(tmp, stage)
                /\ \E s2 \in Stages :
                     /\ tmp' = tmp \cup {StageDoneFile(s2)}
                     /\ stage # s2 => (done_file_exists(tmp', stage) <=> done_file_exists(tmp, stage))
       ]_vars

\* the marker of one mapping key was touched twice: that key alone is done,
\* in the mapping stage alone
C11_Witness ==
  /\ pipeline = "mc" /\ lastOp = <<"key_done", "key_done">>
  /\ read_done_keys(tmp, MAPPING_STAGE) = {1}
  /\ read_done_keys(tmp, REDUCING_STAGE) = {}
  /\ ~done_file_exists(tmp, MAPPING_STAGE)

\* C12: at the end of a successful run of either pipeline, tmp_path and
\* everything in it is left untouched when delete_resume_log_files is false,
\* and the whole tmp_path subtree is deleted when it is true.
C12_CleanupFollowsDeleteResumeLogFiles ==
  [][ (ctl' = "success" /\ ctl # "success") =>
        IF delLogs THEN (tmp' = {} /\ ~tmpDir')
        ELSE (tmp' = tmp /\ tmpDir' = tmpDir)
    ]_vars

\* the total the finishing phase expects: the binned shard total (margin
\* cache) or the sum of the rows listed by the completion CSVs
ExpectedTotal ==
  IF pipeline = "mc" THEN get_mapping_total(tmp) ELSE SumOver(ObjectPixels, CsvRows)

\* C13: the properties file is written only in a run whose metadata total
\* equals the expected total; a finishing phase that finds the totals
\* different raises ValueError, writes no properties file and leaves tmp_path
\* as it is.
C13_PropertiesOnlyWhenTotalsMatch ==
  [][ /\ ("properties" \in catalog' /\ ctl = "properties") =>
           (totalRows = MetadataRows /\ totalRows = ExpectedTotal /\ raised' = NoError)
      /\ "properties" \in catalog' => ("properties" \in catalog \/ ctl = "properties")
      /\ (ctl = "finishing" /\ ctl' # "crashed" /\ ExpectedTotal # MetadataRows) =>
           /\ ctl' = "failed"
           /\ raised'.type = "ValueError"
           /\ ("properties" \in catalog' <=> "properties" \in catalog)
           /\ tmp' = tmp /\ tmpDir' = tmpDir
    ]_vars

\* a finishing phase found the totals different and stopped
C13_Witness ==
  /\ ctl = "failed" /\ raised = ConfigError("finishing")
  /\ ExpectedTotal # MetadataRows
  /\ "_metadata" \in catalog /\ "properties" \notin catalog
  /\ tmpDir

\* C14: margin cache: when the binned total is zero, generate_margin_cache
\* raises ValueError, submits no reducing task, writes neither metadata nor
\* properties and leaves tmp_path as it is.
C14_EmptyMarginCacheIsRefused ==
  [][ (pipeline = "mc" /\ ctl = "binning" /\ ctl' # "crashed" /\ get_mapping_total(tmp) = 0) =>
        /\ ctl' = "failed"
        /\ raised'.type = "ValueError"
        /\ \A d \in PartitionPixels : rtask'[d].pc = "none"
        /\ catalog' = catalog
        /\ catalog' \cap {"_metadata", "partition_info", "properties"} = {}
        /\ tmp' = tmp /\ tmpDir' = tmpDir
    ]_vars

\* mapping completed, no margin row was found, the run stopped at binning
C14_Witness ==
  /\ pipeline = "mc" /\ ctl = "failed" /\ raised = ConfigError("binning")
  /\ StageDoneFile(MAPPING_STAGE) \in tmp
  /\ \A k \in PartitionPixels : KeyDoneFile(MAPPING_STAGE, k) \in tmp
  /\ catalog = {}

\* C15: gathering a margin cache plan with resume enabled raises the planning
\* error exactly when the reducing stage marker exists and the mapping stage
\* marker does not, and then creates nothing in tmp_path.
C15_ReducingWithoutMappingIsRefused ==
  [][ (pipeline = "mc" /\ resume /\ GatherStep) =>
        /\ raised' = [type |-> "ValueError", stage |-> "planning", count |-> NoCount]
             <=> (StageDoneFile(REDUCING_STAGE) \in tmp /\ StageDoneFile(MAPPING_STAGE) \notin tmp)
        /\ raised' # NoError => tmp' = tmp
        /\ raised' = NoError => {MARGIN_PAIR_FILE, StageDir(MAPPING_STAGE), StageDir(REDUCING_STAGE)} \subseteq tmp'
    ]_vars

\* the plan was gathered on a tmp_path holding reducing_done alone
C15_Witness ==
  /\ pipeline = "mc" /\ resume /\ lastOp[2] = "gather"
  /\ raised = ConfigError("planning")
  /\ StageDoneFile(REDUCING_STAGE) \in tmp
  /\ MARGIN_PAIR_FILE \notin tmp /\ StageDir(MAPPING_STAGE) \notin tmp

\* the step is the planning of an invocation of a pipeline
PlanningStep == Stopped /\ ctl' \in {"planned", "failed"}

\* C17: margin cache: the planning of an invocation computes and writes the
\* margin pairs only when margin_pair.csv is absent, and never on a resumed
\* run that finds the file; the file exists whenever mapping tasks are
\* submitted or outstanding.
C17_MarginPairsComputedOnlyWhenAbsent ==
  /\ [](pipeline = "mc" =>
          /\ ctl \in {"planned", "mapping"} => MARGIN_PAIR_FILE \in tmp
          /\ \A k \in PartitionPixels : Running(task[k]) => MARGIN_PAIR_FILE \in tmp)
  /\ [][ (pipeline = "mc" /\ PlanningStep) =>
           /\ computed' => (MARGIN_PAIR_FILE \notin tmp \/ ~resume)
           /\ (resume /\ MARGIN_PAIR_FILE \in tmp) => ~computed'
           /\ (MARGIN_PAIR_FILE \notin tmp /\ ctl' = "planned") => computed'
       ]_vars

\* a resumed invocation found margin_pair.csv and submitted its mapping tasks
\* without computing the pairs again
C17_Witness ==
  /\ pipeline = "mc" /\ resume /\ crashes > 0 /\ ctl = "mapping"
  /\ ~computed /\ MARGIN_PAIR_FILE \in tmp
  /\ \E k \in PartitionPixels : Running(task[k])

C20_CombineNeedsEveryPartial ==
  [][ (pipeline = "ncl" /\ lastOp'[2] = "combine" /\ lastOp[2] # "none") =>
        IF \A p \in DOMAIN objectMap : CsvFile(p) \in tmp
        THEN /\ raised' = NoError
             /\ "partition_info" \in catalog'
             /\ totalRows' = SumOver(ObjectPixels, CsvRows)
        ELSE /\ raised' = ConfigError("combine")
             /\ catalog' = catalog /\ tmp' = tmp /\ totalRows' = totalRows
    ]_vars

\* combining was refused although the counting marker exists
C20_Witness ==
  /\ pipeline = "ncl" /\ lastOp[2] = "combine"
  /\ raised = ConfigError("combine")
  /\ StageDoneFile(COUNTING_STAGE) \in tmp
  /\ \E p \in ObjectPixels : CsvFile(p) \in tmp
  /\ \E p \in ObjectPixels : CsvFile(p) \notin tmp
  /\ "partition_info" \notin catalog

\* C19: a step of _perform_nest that raises is logged with the object pixel
\* and the exception, the same exception reaches the caller, no completion
\* CSV is written for the pixel and the pixel stays in the remaining work.
C19_FailedTaskIsLoggedAndLeftUncounted ==
  pipeline = "ncl" =>
    /\ \A p \in ObjectPixels :
         task[p].pc = "error" =>
           /\ failAt[p] \in FailureSteps
           /\ taskExc[p] = StepError(failAt[p])
           /\ <<p, StepError(failAt[p])>> \in taskLog
           /\ CsvFile(p) \notin tmp
           /\ p \in get_sources_to_count(tmp)
           /\ ctl = "failed" => raised.type = "RuntimeError"
    /\ \A entry \in taskLog : task[entry[1]].pc = "error" /\ taskExc[entry[1]] = entry[2]
    /\ \A p \in SubmittedPixels : CsvFile(p) \in tmp => task[p].pc = "done"

\* one task failed while writing the partition list, after it had written
\* its output files, and the stage wait has reported the failure
C19_Witness ==
  /\ pipeline = "ncl" /\ ctl = "failed"
  /\ \E p \in ObjectPixels :
       /\ task[p].pc = "error" /\ failAt[p] = "finishing"
       /\ nBuckets[p] > 0 /\ \A b \in pixel_list(p) : out[b] = ExpectedRows(b)
       /\ <<p, taskExc[p]>> \in taskLog

\* total of the histograms of the map_to_pixels tasks
HistogramTotal ==
  SumOver(ShardSuffixes \X MapPixels,
          [e \in ShardSuffixes \X MapPixels |-> histo[e[1]][e[2]]])

\* C16: two sibling tasks never create or delete the same path, so the files
\* are the same whatever the interleaving: every shard written by
\* map_to_pixels is a file of its own, and when the _perform_nest tasks are
\* done the files are the ones each task leaves when it runs alone.
C16_SiblingTasksWriteDisjointPaths ==
  /\ \A w1 \in writes : \A w2 \in writes : w1[2] = w2[2] => w1[1] = w2[1]
  /\ (pipeline = "import" /\ \A s \in ShardSuffixes : mapData[s].cache_path)
       => Cardinality(cacheFiles) = HistogramTotal
  /\ (pipeline = "ncl" /\ \A p \in SubmittedPixels : task[p].pc = "done") =>
       /\ tmp \ {StageDoneFile(COUNTING_STAGE)} =
                {SOURCE_MAP_FILE} \cup {CsvFile(p) : p \in ObjectPixels}
                  \cup (IF delShards THEN {}
                        ELSE {ShardDir(b) : b \in UNION {pixel_list(p) : p \in SubmittedPixels}})
       /\ \A b \in OutFiles :
            out[b] = IF b \in pixel_list(b[1]) THEN ExpectedRows(b) ELSE Absent

\* two sibling tasks are in the middle of writing, each with paths to its name
C16_Witness ==
  /\ pipeline = "ncl"
  /\ \E p \in ObjectPixels : \E q \in ObjectPixels \ {p} :
       /\ task[p].pc = "writing" /\ task[q].pc = "writing"
       /\ \E w \in writes : w[1] = p
       /\ \E w \in writes : w[1] = q

(* ----------------------- claims on the collection builder -------------- *)
\* the methods that need the primary catalog
SubcatalogOps == {"add_margin", "get_margin_args", "add_index", "get_index_args"}

\* the name of the primary catalog: the last component of its path
PrimaryName == newCatalogPath[Len(newCatalogPath)]

\* C21 as stated: a catalog() call that follows any earlier catalog() call,
\* however that one ended, raises 'exactly once' and changes nothing.
C21_SecondCatalogCallAlwaysRaises ==
  [][(catalogCalls >= 1 /\ cLast'.op = "catalog" /\ cvars' # cvars) =>
       /\ cLast'.exc = "exactly once"
       /\ UNCHANGED <<newCatalogPath, catalogArgs, marginKwargs, indexKwargs,
                      marginArgs, indexArgs>>]_vars

\* C21: a catalog() call that follows a catalog() call that returned
\* normally raises 'exactly once' and changes nothing in the builder; a call
\* that follows only calls that raised is carried out as a first call.
C21_CatalogCallAfterSuccessRaises ==
  [][(cLast'.op = "catalog" /\ cvars' # cvars) =>
       IF newCatalogPath # NoPath
       THEN /\ cLast'.exc = "exactly once"
            /\ UNCHANGED <<newCatalogPath, catalogArgs, marginKwargs, indexKwargs,
                           marginArgs, indexArgs>>
       ELSE cLast'.exc # "exactly once"]_vars

\* a second call has been refused after sub-catalogs were added
C21_Witness ==
  /\ cLast.op = "catalog" /\ cLast.exc = "exactly once"
  /\ catalogCalls = 2 /\ marginKwargs # <<>>

\* C22: add_margin, add_index, get_margin_args and get_index_args raise 'add
\* catalog arguments' and stash or construct nothing while no catalog() call
\* has succeeded; afterwards add_margin and add_index stash one more
\* configuration at every call.
C22_SubcatalogCallsNeedThePrimary ==
  [][(cLast'.op \in SubcatalogOps /\ cvars' # cvars) =>
       IF newCatalogPath = NoPath
       THEN /\ cLast'.exc = "add catalog arguments"
            /\ UNCHANGED <<newCatalogPath, catalogArgs, marginKwargs, indexKwargs,
                           marginArgs, indexArgs>>
       ELSE /\ cLast'.exc # "add catalog arguments"
            /\ cLast'.op = "add_margin" =>
                 cLast'.exc = "none" /\ Len(marginKwargs') = Len(marginKwargs) + 1
            /\ cLast'.op = "add_index" =>
                 cLast'.exc = "none" /\ Len(indexKwargs') = Len(indexKwargs) + 1]_vars

\* a sub-catalog call is refused after a catalog() call that raised
C22_Witness ==
  /\ cLast.op \in SubcatalogOps /\ cLast.exc = "add catalog arguments"
  /\ catalogCalls >= 1 /\ newCatalogPath = NoPath

\* C23: a first catalog() call whose path (the catalog_path given, or
\* output_path / collection / output_artifact_name) holds a valid catalog
\* makes that path the primary and leaves catalog_args unset; otherwise it
\* constructs the import configuration from the shared defaults overridden by
\* the call's arguments and the primary path is that configuration's
\* catalog_path.
C23_CatalogAdoptsOrImports ==
  [][(cLast'.op = "catalog" /\ newCatalogPath = NoPath /\ cvars' # cvars) =>
       LET kw == cLast'.kwargs
           name == IF "output_artifact_name" \in DOMAIN kw
                   THEN kw.output_artifact_name ELSE OUTPUT_ARTIFACT_NAME
           probed == IF "catalog_path" \in DOMAIN kw THEN kw.catalog_path
                     ELSE <<"out", OUTPUT_ARTIFACT_NAME, name>>
       IN  IF probed \in disk
           THEN /\ cLast'.exc = "none"
                /\ newCatalogPath' = probed
                /\ catalogArgs' = NoArgs
           ELSE \/ cLast'.exc # "none" /\ UNCHANGED <<newCatalogPath, catalogArgs>>
                \/ /\ cLast'.exc = "none"
                   /\ catalogArgs' # NoArgs
                   /\ \A k \in DOMAIN kw \ {"catalog_path"} : catalogArgs'[k] = kw[k]
                   /\ \A k \in DOMAIN _get_subarg_dict \ DOMAIN kw :
                        catalogArgs'[k] = _get_subarg_dict[k]
                   /\ catalogArgs'.output_artifact_name = name
                   /\ catalogArgs'.catalog_path = Append(catalogArgs'.output_path, name)
                   /\ newCatalogPath' = catalogArgs'.catalog_path]_vars

\* the catalog found under the collection's own directory has been adopted
C23_Witness ==
  /\ cLast.op = "catalog" /\ cLast.exc = "none"
  /\ newCatalogPath = <<"out", OUTPUT_ARTIFACT_NAME, "obj">>
  /\ newCatalogPath \in disk /\ catalogArgs = NoArgs

\* C24 as stated: when get_margin_args / get_index_args returns, every
\* stashed configuration has been constructed and validated, and the result
\* is the list of them all.
C24_GetArgsValidatesEveryStash ==
  /\ (cLast.op = "get_margin_args" /\ cLast.exc = "none") =>
       /\ Len(marginArgs) = Len(marginKwargs)
       /\ \A i \in 1..Len(marginKwargs) :
            marginArgs[i] = MarginCacheArguments(marginKwargs[i]).args
  /\ (cLast.op = "get_index_args" /\ cLast.exc = "none") =>
       /\ Len(indexArgs) = Len(indexKwargs)
       /\ \A i \in 1..Len(indexKwargs) :
            indexArgs[i] = IndexArguments(indexKwargs[i]).args

\* C25: once catalog() has succeeded, add_margin and add_index never raise
\* and only append to the stash, whatever the arguments; the validation
\* errors 'higher order' and 'not in input catalog' come from
\* get_margin_args / get_index_args only.
C25_AddNeverValidates ==
  /\ [](cLast.exc \in {"higher order", "not in input catalog"}
          => cLast.op \in {"get_margin_args", "get_index_args"})
  /\ [][(cLast'.op \in {"add_margin", "add_index"} /\ newCatalogPath # NoPath
           /\ cvars' # cvars) =>
          /\ cLast'.exc = "none"
          /\ UNCHANGED <<marginArgs, indexArgs, newCatalogPath, catalogArgs>>
          /\ cLast'.op = "add_margin" =>
               /\ SubSeq(marginKwargs', 1, Len(marginKwargs)) = marginKwargs
               /\ Len(marginKwargs') = Len(marginKwargs) + 1
               /\ indexKwargs' = indexKwargs
          /\ cLast'.op = "add_index" =>
               /\ SubSeq(indexKwargs', 1, Len(indexKwargs)) = indexKwargs
               /\ Len(indexKwargs') = Len(indexKwargs) + 1
               /\ marginKwargs' = marginKwargs]_vars

\* an index on a column the catalog has not was stashed, and refused at
\* get_index_args
C25_Witness ==
  /\ cLast.op = "get_index_args" /\ cLast.exc = "not in input catalog"
  /\ \E i \in 1..Len(indexKwargs) : indexKwargs[i].indexing_column = "not_there"

\* what a stashed configuration is, given the call and the name in front of
\* the suffix
StashedAs(stashed, kw, prefix, suffix) ==
  /\ \A k \in DOMAIN kw : stashed[k] = kw[k]
  /\ \A k \in DOMAIN _get_subarg_dict \ DOMAIN kw : stashed[k] = _get_subarg_dict[k]
  /\ "output_artifact_name" \notin DOMAIN kw =>
       stashed.output_artifact_name = prefix \o suffix
  /\ "input_catalog_path" \notin DOMAIN kw =>
       stashed.input_catalog_path = newCatalogPath
  /\ DOMAIN stashed = DOMAIN kw \cup DOMAIN _get_subarg_dict
                        \cup {"output_artifact_name", "input_catalog_path"}

RelativePath(f) == <<"Norder=0", "Dir=0", "Npix=" \o ToString(f) \o ".parquet">>

\* test and target of the Results of one run, in order
ExpectedTests ==
  <<(<<"valid hats", "catalog">>), (<<"file sets", "_metadata vs data files">>),
    (<<"num rows", "file footers vs _metadata">>)>>
    \o (IF vData.truth_total_rows # NoTruth
        THEN <<(<<"num rows", "file footers vs truth">>)>> ELSE <<>>)
    \o <<(<<"schema consistency", "constructed_truth_schema">>),
         (<<"schema", "_common_metadata vs truth">>),
         (<<"schema", "_metadata vs truth">>),
         (<<"schema", "file footers vs truth">>)>>

\* C27: every run appends, whatever the checks find, one Result per check
\* in the order validity, file sets, row counts, schemas to the results the
\* verifier holds, and then writes the report, whose last rows are all the
\* results the verifier holds, in order; nothing is raised but for a report
\* that exists already and a write mode that creates it.
C27_RunRecordsEveryCheckInOrder ==
  [][vRuns' = vRuns + 1 =>
       LET this == runLog'[vRuns']
           held == IF this.fresh THEN <<>> ELSE vResults
           new == SubSeq(vResults', Len(held) + 1, Len(vResults'))
           n == Len(vResults')
       IN  /\ SubSeq(vResults', 1, Len(held)) = held
           /\ [i \in 1..Len(new) |-> <<new[i].test, new[i].target>>] = ExpectedTests
           /\ \A i \in 1..Len(new) : new[i].datetime = vRuns'
           /\ new[1].passed = vData.valid
           /\ this.exc # "none" <=> (this.write_mode = "x" /\ report # <<>>)
           /\ this.exc = "none" =>
                /\ Len(report') >= n + 1
                /\ \A i \in 1..n : report'[Len(report') - n + i] = <<"row", vResults'[i]>>
           /\ this.exc # "none" => report' = report]_vars

\* a run on an invalid catalog with differing file sets has recorded all
\* checks and written them
C27_Witness ==
  /\ vpc = "done" /\ vRuns = 1 /\ ~vData.valid
  /\ Len(vResults) = 8
  /\ ~vResults[1].passed /\ ~vResults[2].passed /\ ~vResults[4].passed
  /\ Len(report) = 9

\* C28 as stated: after runs in append mode only, the report is one header
\* row followed by the rows of all runs in order, each once; after a run in
\* overwrite mode it is one header row and only that run's rows.
C28_ReportIsOneHeaderAndTheRunsRows ==
  LET rows == SubSeq(report, 2, Len(report))
  IN  /\ (vRuns >= 1 /\ \A i \in 1..vRuns : runLog[i].write_mode = "a") =>
           /\ report[1] = HEADER
           /\ \A j \in 1..Len(rows) : rows[j][1] = "row"
           /\ \A i \in 1..vRuns : \E j \in 1..Len(rows) : rows[j][2].datetime = i
           /\ \A j \in 1..Len(rows) : \A k \in 1..Len(rows) :
                j < k => /\ rows[j][2].datetime <= rows[k][2].datetime
                         /\ rows[j] # rows[k]
      /\ (vRuns >= 1 /\ runLog[vRuns].write_mode = "w") =>
           /\ report[1] = HEADER
           /\ \A j \in 1..Len(rows) : rows[j][1] = "row" /\ rows[j][2].datetime = vRuns

C30_RowCountsPerFileAndTruth ==
  LET known == {f \in FileIds : vData.footer_rows[f] # Absent \/ vData.metadata_rows[f] # Absent}
      on_disk == {f \in FileIds : vData.footer_rows[f] # Absent}
  IN  /\ \A i \in 1..Len(vResults) :
           (vResults[i].test = "num rows" /\ vResults[i].target = "file footers vs _metadata") =>
             /\ vResults[i].bad_files =
                  {RelativePath(f) : f \in {g \in known :
                     vData.footer_rows[g] # vData.metadata_rows[g]}}
             /\ vResults[i].passed <=> vResults[i].bad_files = {}
      /\ \A i \in 1..Len(vResults) :
           (vResults[i].test = "num rows" /\ vResults[i].target = "file footers vs truth") =>
             /\ vData.truth_total_rows # NoTruth
             /\ vResults[i].passed <=>
                  vData.truth_total_rows = SumOver(on_disk, vData.footer_rows)
      /\ \A run \in 1..vRuns :
           (\E i \in 1..Len(vResults) : vResults[i].datetime = run) =>
             ((\E i \in 1..Len(vResults) :
                 /\ vResults[i].datetime = run
                 /\ vResults[i].target = "file footers vs truth"
                 /\ vResults[i].test = "num rows")
               <=> vData.truth_total_rows # NoTruth)

\* exactly one file has a footer count that _metadata does not record, and
\* the truth given is the sum of the footers
C30_Witness ==
  /\ vpc = "done"
  /\ \A f \in FileIds : vData.footer_rows[f] # Absent /\ vData.metadata_rows[f] # Absent
  /\ Cardinality(vResults[3].bad_files) = 1
  /\ vResults[4].target = "file footers vs truth" /\ vResults[4].passed

\* C39 as stated: a get_margin_args() call that returns normally returns one
\* validated configuration per add_margin() call that was accepted before
\* it, in call order, and likewise get_index_args() for add_index().
C39_GetArgsReturnsOnePerAdd ==
  [][(cLast'.exc = "none" /\ cvars' # cvars) =>
       /\ cLast'.op = "get_margin_args" =>
            marginArgs' = [i \in 1..Len(marginKwargs) |->
                             Validated("MarginCacheArguments", marginKwargs[i])]
       /\ cLast'.op = "get_index_args" =>
            indexArgs' = [i \in 1..Len(indexKwargs) |->
                            Validated("IndexArguments", indexKwargs[i])]]_vars

(* ------------- claims on the reduce step of the nesting task ------------ *)
\* C35 as stated: the reduce step leaves a destination bucket alone iff its
\* output file exists with the expected row count: it rewrites no bucket
\* whose file is already right, and when it returns every bucket whose file
\* was missing or held another row count has been recomputed, so that every
\* file of the pixel list is right.
C35_ShortcutSkipsOnlyFinishedBuckets ==
  /\ [][\A p \in ObjectPixels : \A b \in pixel_list(p) :
          (pipeline = "ncl" /\ task[p].pc = "reducing" /\ out'[b] # out[b])
            => out[b] # ExpectedRows(b)]_vars
  /\ [](\A p \in ObjectPixels :
          (pipeline = "ncl" /\ nBuckets[p] > 0 /\ task[p].pc = "finishing")
            => \A b \in pixel_list(p) : out[b] \in {ExpectedRows(b)})

\* C37: an object pixel without a matching source row never enters the
\* reduce step and writes no output file, and when its task is done the
\* completion CSV is written and the resume plan no longer lists the pixel.
C37_NoMatchSkipsReduceAndCompletes ==
  \A p \in ObjectPixels :
    (pipeline = "ncl" /\ nBuckets[p] = 0) =>
      /\ task[p].pc \notin {"reducing", "writing"}
      /\ \A w \in writes : w[1] = p => w[2] \in {CsvPath(p)}
      /\ \A b \in AllBuckets : b[1] = p => out[b] = Absent
      /\ task[p].pc = "done" =>
           /\ <<p, CsvPath(p)>> \in writes
           /\ p \notin get_sources_to_count(tmp)

\* the task of a pixel without matching sources is done next to a task that
\* went through the reduce step
C37_Witness ==
  /\ pipeline = "ncl"
  /\ \E p \in ObjectPixels : \E q \in ObjectPixels :
       /\ nBuckets[p] = 0 /\ task[p].pc = "done"
       /\ nBuckets[q] > 0 /\ task[q].pc = "done"

(* -------------- claims on the margin cache and its arguments ------------ *)
\* C40 as stated: whatever invocations with other arguments came before on
\* the same tmp_path, once the plan is gathered the margin pairs in
\* margin_pair.csv are those of the current margin_order, and from binning
\* on every mapping result was computed with the current arguments.
C40_PlanDataIsOfTheCurrentArguments ==
  pipeline = "mc" =>
    /\ ctl \in {"planned", "mapping", "binning", "reducing", "finishing", "properties"}
         => pairsOrder = mcArgs.margin_order
    /\ ctl \in {"binning", "reducing", "finishing", "properties"}
         => \A k \in PartitionPixels :
              mappedWith[k] = [pairs |-> mcArgs.margin_order,
                               margin_order |-> mcArgs.margin_order,
                               margin_threshold |-> mcArgs.margin_threshold]

(* ------------------------ claims on the FITS reader --------------------- *)
\* the chunks of a table of rows 1..n for a chunk size c: ceil(n / c)
\* chunks, chunk j holding the rows (j-1)*c + 1 .. min(j*c, n)
ExpectedChunks(n, c) ==
  [j \in 1..((n + c - 1) \div c) |->
     [r \in 1..(IF j * c <= n THEN c ELSE n - (j - 1) * c) |-> (j - 1) * c + r]]

\* C33: an exhausted read of a table of N rows with chunk size C has
\* yielded ceil(N/C) chunks in row order, none longer than C, N rows in all;
\* every earlier read of the file yielded the same chunks; the file is open
\* while the generator is suspended and closed when it is exhausted.
C33_ReadYieldsCeilChunksEachTime ==
  pipeline = "fits" =>
    /\ fitsGen.pc = "suspended" => fitsGen.open
    /\ fitsGen.pc = "exhausted" =>
         /\ ~fitsGen.open
         /\ Len(fitsChunks) * chunksize >= Len(fitsTable)
         /\ (Len(fitsChunks) - 1) * chunksize < Len(fitsTable) \/ Len(fitsTable) = 0
         /\ \A j \in 1..Len(fitsChunks) : Len(fitsChunks[j]) <= chunksize
         /\ fitsChunks = ExpectedChunks(Len(fitsTable), chunksize)
         /\ \A i \in 1..Len(fitsReads) : fitsReads[i] = fitsChunks

\* a second read is exhausted; the last of its chunks is a short one
C33_Witness ==
  /\ pipeline = "fits" /\ fitsGen.pc = "exhausted"
  /\ Len(fitsReads) = 1 /\ Len(fitsChunks) >= 2
  /\ Len(fitsTable) % chunksize # 0

(* ---------------------- claims on library functions --------------------- *)
\* C34: check_healpix_order_range returns normally iff the value and both
\* bounds are integers, 0 <= lower_bound, upper_bound <= 29 and
\* lower_bound <= value <= upper_bound; a type error is raised only for a
\* non-integer argument, the range error 'positive' only for a negative
\* lower_bound, the range error '29' only for an upper_bound above 29 and the
\* range error naming field_name only for a value outside the bounds.
C34_OrderRangeReturnsIffInRange ==
  (lastCall.op = "check_healpix_order_range" /\ lastCall.returned) =>
    LET c == lastCall
        ints == c.value[1] = "int" /\ c.lower_bound[1] = "int" /\ c.upper_bound[1] = "int"
    IN  /\ c.exc \in {"none", "TypeError: not supported", "ValueError: positive",
                      "ValueError: 29", "ValueError: " \o c.field_name}
        /\ c.exc = "TypeError: not supported" <=> ~ints
        /\ ints =>
             /\ c.exc = "none" <=>
                  /\ 0 <= c.lower_bound[2] /\ c.upper_bound[2] <= 29
                  /\ c.lower_bound[2] <= c.value[2] /\ c.value[2] <= c.upper_bound[2]
             /\ c.exc = "ValueError: positive" => c.lower_bound[2] < 0
             /\ c.exc = "ValueError: 29" => c.upper_bound[2] > 29
             /\ c.exc = "ValueError: " \o c.field_name =>
                  ~(c.lower_bound[2] <= c.value[2] /\ c.value[2] <= c.upper_bound[2])

\* the order 30 with the upper bound 30 is refused with the error '29'
C34_Witness ==
  /\ lastCall.op = "check_healpix_order_range" /\ lastCall.returned
  /\ lastCall.value = <<"int", 30>> /\ lastCall.upper_bound = <<"int", 30>>
  /\ lastCall.lower_bound = <<"int", 0>>
  /\ lastCall.exc = "ValueError: 29"

\* the names of source_nested_columns as given in a call
GivenNames(cols) ==
  IF cols[1] = "none" THEN {}
  ELSE IF cols[1] = "str" THEN {cols[2]}
  ELSE {cols[2][i] : i \in 1..Len(cols[2])}

\* C32 as stated: whether source_nested_columns is supplied or omitted, the
\* construction raises the configuration error iff one of its names or
\* source_object_id_column is not in the source catalog schema, and the
\* error lists the missing names.
C32_MissingSourceColumnsAreRefused ==
  (lastCall.op = "NestLightCurveArguments" /\ lastCall.returned) =>
    LET required == GivenNames(lastCall.source_nested_columns)
                      \cup {lastCall.source_object_id_column}
        missing == required \ {"object_id", "mjd", "mag"}
    IN  /\ lastCall.exc.type = "ValueError" <=> missing # {}
        /\ lastCall.exc.missing = missing

\* the sources left before candidate i of a list is tried
RECURSIVE LeftBefore(_, _, _)
LeftBefore(candidates, num_sources, i) ==
  IF i <= 1 THEN num_sources
  ELSE LeftBefore(candidates, num_sources, i - 1) - candidates[i - 1].matches

C31_NoTruthSchemaMeansCommonSchema ==
  (lastCall.op = "_test_schema__common_metadata" /\ lastCall.returned
     /\ ~lastCall.input_truth_schema.given) =>
    /\ lastCall.constructed.fields = lastCall.common_metadata_schema.fields
    /\ ~lastCall.check_metadata => lastCall.passed

====
